---- MODULE Spec2Model ----
(***************************************************************************)
(* Model of the resumable batch-extraction pipeline of                    *)
(* text_processing_to_json.py: the persisted store as a token sequence,    *)
(* the resume ladder (load_existing_output_safe), the Batcher and the      *)
(* worker pool of main, process_batch, clean_and_validate's index          *)
(* assignment and the Writer (write_batch_results).                        *)
(***************************************************************************)
EXTENDS Integers, Sequences, FiniteSets, TLC

\* ------------------------------------------------------------------ bounds
\* Number of sentence units of the input document (positions 0..N-1).
NumSentences == 3
\* Window size of the Batcher (a configuration value, 4 in the source).
BATCH_SIZE == 2
\* Pool size (a configuration value, 1 in the source).
MAX_PARALLEL_BATCHES == 2
\* The model may return up to this many raw records more than the batch has units.
MaxExtra == 1
\* Number of process invocations after the first one.
MaxRestarts == 1
\* Length of the arbitrary store contents fed to the Resume Tracker.
MaxTokens == 4
\* Number of fragments of a store written by the Writer, for the truncation runs.
MaxFragments == 2
\* Number of concurrent callers of write_batch_results in the Writer runs.
NumWriters == 2
\* Number of tokens of a store that may be overwritten.
MaxDamage == 1
\* Number of raw records in one call of clean_and_validate on record contents.
MaxRecords == 2
\* Length of the "characters" list of a raw record.
MaxCandidates == 2
\* Length of the "entities" list of a raw record.
MaxEntities == 1
\* Number of pairs of the "coref" dict of a raw record.
MaxPairs == 1
\* Length of the response given to parse_response, in tokens.
MaxResponse == 5

\* ------------------------------------------------------- program constants
MAX_RETRIES == 2

Positions == 0 .. (NumSentences - 1)

\* The input document: the sentences at these positions hold a "}" character.
BraceSentences == {0}

\* ------------------------------------------------------------ store tokens
(* The store file is a sequence of tokens.  Kinds:                         *)
(*   "{"   the brace opening a record fragment                             *)
(*   "c{"  the key "coref" and the brace opening its (nested) object       *)
(*   "}"   a closing brace outside string literals                         *)
(*   "s}"  a string member whose text holds a closing brace character      *)
(*   "idx" the member "index": v  (v an integer)                           *)
(*   "idxbad"   the member "index": <a string>                             *)
(*   "chars"    the member "characters": v  (v the set of its strs)        *)
(*   "charsbad" the member "characters": <a number>                        *)
(*   ","   the separator ",\n" the Writer puts behind every fragment       *)
(*   "["  "]"  array brackets                                              *)
(*   "x"   any other text that is not JSON                                 *)
(* Members that hold neither a brace nor the index are not represented.    *)
Tok(k, v) == [k |-> k, v |-> v]

MemberKinds == {"idx", "idxbad", "chars", "charsbad", "s}"}

\* The characters the pattern of line 401 sees as "{" and as "}".
IsOpen(t) == t.k \in {"{", "c{"}
IsClose(t) == t.k \in {"}", "s}"}

\* json.dumps(obj, indent=2) followed by ",\n": index, text, characters, ..., coref,
\* speaker. A "chars" token holds the names of "characters" where a run follows them.
Fragment(obj) ==
    <<Tok("{", 0), Tok("idx", obj.index)>>
    \o (IF obj.brace THEN <<Tok("s}", 0)>> ELSE <<>>)
    \o (IF "characters" \in DOMAIN obj THEN <<Tok("chars", obj.characters)>> ELSE <<>>)
    \o <<Tok("c{", 0), Tok("}", 0), Tok("}", 0), Tok(",", 0)>>

\* --------------------------------------------------------------- json.loads
RECURSIVE MembersEnd(_, _)
\* Position of the "}" closing the object whose members start at j; 0: no parse.
MembersEnd(s, j) ==
    IF j > Len(s) THEN 0
    ELSE IF s[j].k = "}" THEN j
    ELSE IF s[j].k \in MemberKinds THEN MembersEnd(s, j + 1)
    ELSE IF s[j].k = "c{"
         THEN LET e == MembersEnd(s, j + 1)
              IN IF e = 0 THEN 0 ELSE MembersEnd(s, e + 1)
    ELSE 0

ObjEnd(s, i) == IF i <= Len(s) /\ s[i].k = "{" THEN MembersEnd(s, i + 1) ELSE 0

RECURSIVE ArrEnd(_, _)
RECURSIVE ElemsEnd(_, _)
ValueEnd(s, i) ==
    IF i > Len(s) THEN 0
    ELSE IF s[i].k = "{" THEN ObjEnd(s, i)
    ELSE IF s[i].k = "[" THEN ArrEnd(s, i)
    ELSE 0

\* Position of the "]" closing the array whose next element starts at j.
ElemsEnd(s, j) ==
    LET e == ValueEnd(s, j)
    IN IF e = 0 \/ e + 1 > Len(s) THEN 0
       ELSE IF s[e + 1].k = "]" THEN e + 1
       ELSE IF s[e + 1].k = "," THEN ElemsEnd(s, e + 2)
       ELSE 0

ArrEnd(s, i) ==
    IF i + 1 > Len(s) \/ s[i].k # "[" THEN 0
    ELSE IF s[i + 1].k = "]" THEN i + 1
    ELSE ElemsEnd(s, i + 1)

\* json.loads(s) does not raise JSONDecodeError.
JsonOK(s) == Len(s) > 0 /\ ValueEnd(s, 1) = Len(s)

RECURSIVE ElemStarts(_, _)
\* Start positions of the elements of the (well-formed) array whose next element is at j.
ElemStarts(s, j) ==
    IF s[j].k = "]" THEN <<>>
    ELSE LET e == ValueEnd(s, j)
         IN <<j>> \o (IF s[e + 1].k = "," THEN ElemStarts(s, e + 2) ELSE <<>>)

RECURSIVE DirectMembers(_, _)
\* The members of the object whose members start at j, nested objects left out.
DirectMembers(s, j) ==
    IF j > Len(s) \/ s[j].k = "}" THEN <<>>
    ELSE IF s[j].k = "c{" THEN DirectMembers(s, MembersEnd(s, j + 1) + 1)
    ELSE <<s[j]>> \o DirectMembers(s, j + 1)

\* The dict json.loads builds for the object at i: a repeated key keeps its last value.
ObjAt(s, i) ==
    LET ms == DirectMembers(s, i + 1)
        is == {n \in 1 .. Len(ms) : ms[n].k \in {"idx", "idxbad"}}
        last == IF is = {} THEN 0 ELSE CHOOSE n \in is : \A m \in is : m <= n
        cs == {n \in 1 .. Len(ms) : ms[n].k = "chars"}
        lastc == IF cs = {} THEN 0 ELSE CHOOSE n \in cs : \A m \in cs : m <= n
    IN [isdict |-> TRUE,
        characters |-> IF lastc = 0 THEN {} ELSE ms[lastc].v,
        hasidx |-> is # {},
        idxbad |-> last # 0 /\ ms[last].k = "idxbad",
        index |-> IF last # 0 /\ ms[last].k = "idx" THEN ms[last].v ELSE 0,
        charsbad |-> \E n \in 1 .. Len(ms) : ms[n].k = "charsbad"]

NotADict == [isdict |-> FALSE, characters |-> {}, hasidx |-> FALSE, idxbad |-> FALSE,
             index |-> 0, charsbad |-> FALSE]

\* The list json.loads builds for the array at i.
ListAt(s, i) ==
    LET st == ElemStarts(s, i + 1)
    IN [n \in 1 .. Len(st) |->
           IF s[st[n]].k = "{" THEN ObjAt(s, st[n]) ELSE NotADict]

\* ------------------------------------------------- load_existing_output_safe
\* idx = obj.get("index", -1)
IndexOrDefaultZero(o) == IF o.hasidx THEN o.index ELSE 0
IndexOf(o) == IF o.hasidx THEN o.index ELSE -1

\* Lines 371-376 for one dict, on acc = [idx, err, names]: `idx >= 0` raises TypeError
\* for an index that is no number, the loop over "characters" for a value that is no
\* collection (after the index has been added); names are the strs the loop adds to
\* mentioned_characters.
RecordEffect(o, acc) ==
    IF o.idxbad THEN [acc EXCEPT !.err = TRUE]
    ELSE LET added == IF IndexOf(o) >= 0 THEN acc.idx \cup {IndexOf(o)} ELSE acc.idx
         IN [idx |-> added, err |-> o.charsbad,
             names |-> IF o.charsbad THEN acc.names ELSE acc.names \cup o.characters]

RECURSIVE ScanList(_, _, _)
\* The `for obj in data` loop: stops at the first exception.
ScanList(data, n, acc) ==
    IF n > Len(data) \/ acc.err THEN acc
    ELSE IF ~data[n].isdict THEN ScanList(data, n + 1, acc)
    ELSE ScanList(data, n + 1, RecordEffect(data[n], acc))

NoIndices == [idx |-> {}, err |-> FALSE, names |-> {}]

\* content.rstrip(",").rstrip(): the trailing separator goes.
StripSeparator(s) ==
    IF Len(s) > 0 /\ s[Len(s)].k = "," THEN SubSeq(s, 1, Len(s) - 1) ELSE s

content_wrapped(s) == <<Tok("[", 0)>> \o StripSeparator(s) \o <<Tok("]", 0)>>

RECURSIVE SkipPlain(_, _)
\* [^{}]* from position j: the position of the next brace, or Len(s) + 1.
SkipPlain(s, j) ==
    IF j > Len(s) \/ IsOpen(s[j]) \/ IsClose(s[j]) THEN j ELSE SkipPlain(s, j + 1)

RECURSIVE GroupsEnd(_, _)
\* (?:\{[^{}]*\}[^{}]*)*\} from position j, which is at a brace or behind the text.
GroupsEnd(s, j) ==
    IF j > Len(s) THEN 0
    ELSE IF IsClose(s[j]) THEN j
    ELSE LET c == SkipPlain(s, j + 1)
         IN IF c > Len(s) \/ ~IsClose(s[c]) THEN 0
            ELSE GroupsEnd(s, SkipPlain(s, c + 1))

\* End of the match of the pattern of line 401 that starts at i; 0: no match there.
MatchEnd(s, i) == IF IsOpen(s[i]) THEN GroupsEnd(s, SkipPlain(s, i + 1)) ELSE 0

RECURSIVE FindAll(_, _)
\* re.findall(pattern, content): the non-overlapping matches, leftmost first.
FindAll(s, i) ==
    IF i > Len(s) THEN <<>>
    ELSE LET e == MatchEnd(s, i)
         IN IF e = 0 THEN FindAll(s, i + 1)
            ELSE <<SubSeq(s, i, e)>> \o FindAll(s, e + 1)

\* json.loads(match): the match starts at a brace character, whatever preceded it.
MatchOK(m) == m[Len(m)].k = "}" /\ MembersEnd(m, 2) = Len(m)

RECURSIVE ScanMatches(_, _, _)
\* Lines 404-414: a match that is no JSON is skipped, any other exception ends the loop.
ScanMatches(ms, n, acc) ==
    IF n > Len(ms) \/ acc.err THEN acc
    ELSE IF ~MatchOK(ms[n]) THEN ScanMatches(ms, n + 1, acc)
    ELSE ScanMatches(ms, n + 1, RecordEffect(ObjAt(ms[n], 1), acc))

\* Lines 366-414: whole document, wrapped in brackets, fragment scan.
Ladder(s) ==
    IF JsonOK(s) /\ s[1].k = "["
    THEN ScanList(ListAt(s, 1), 1, NoIndices)
    ELSE IF JsonOK(content_wrapped(s))
    THEN ScanList(ListAt(content_wrapped(s), 1), 1, NoIndices)
    ELSE ScanMatches(FindAll(s, 1), 1, NoIndices)

\* Lines 422-423 left out: the exception leaves the function.
NoOuterExcept(r) == [idx |-> r.idx, raised |-> r.err]
\* Lines 359, 422-425: `except Exception` keeps what was read so far.
OuterExcept(r) == [idx |-> r.idx, raised |-> FALSE]

\* The Resume Tracker: [idx: the CompletionSet, raised: an exception left the call].
\* An absent and an empty file both give the empty set (lines 354-355, 363-364).
load_existing_output_safe(s) ==
    IF s = <<>> THEN [idx |-> {}, raised |-> FALSE] ELSE OuterExcept(Ladder(s))

\* The strs the call adds to mentioned_characters (lines 374-376, 391-393, 410-412):
\* those of every record it reads, also after an exception that ends the reading.
loaded_characters(s) == IF s = <<>> THEN {} ELSE Ladder(s).names

\* ------------------------------------------------------------------- state
VARIABLES
    store,              \* content of OUTPUT_FILE, a token sequence (<<>>: absent or empty)
    pc,                 \* where main is: "load", "batch", "drain", "check", "exit", "done";
                        \* "exit1" after sys.exit(1), "aborted" after an uncaught exception
    processed_indices,  \* the CompletionSet of this process
    batches,            \* the list built by lines 469-483: [sentences, start]
    fut,                \* state of each future: "pending", "running", "finished", "cancelled"
    attempt,            \* attempts of process_batch's retry loop made so far, per batch
    result,             \* what process_batch returned, per batch (<<>>: None)
    abandoned,          \* batches whose every attempt failed (line 328-330)
    yielded,            \* futures as_completed has handed to the loop body
    stop_processing,    \* the global stop flag
    restarts,           \* process invocations so far, the first one not counted
    killed,             \* some earlier process was killed instead of returning from main
    prevStore,          \* the store as the previous process left it when main returned
    prevDone,           \* the previous process returned from main
    call,               \* a call of clean_and_validate: its arguments and how far it is
    returned,           \* what that call returned
    orig,               \* the store as the Writer left it, before it was damaged
    damage,             \* how many tokens of the store have been overwritten
    loaded,             \* what a call of load_existing_output_safe returned
    write_lock,         \* the thread holding write_lock (0: free)
    wpc,                \* where each caller of write_batch_results is
    wbatch,             \* the batch_results of each caller
    wnext,              \* the place in batch_results each caller has reached
    wbuf,               \* what each caller has written to its file object, unflushed
    mentioned_characters, \* the global set of names (the CharacterContext)
    vcall,              \* a call of clean_and_validate on record contents: how far it is
    vobj,               \* the raw record that call handled last
    vrec,               \* the record it appended for it (emitted: FALSE when skipped)
    tpc,                \* where each pool thread is between prompt and validation
    last_read,          \* the names the latest reader of mentioned_characters saw
    response,           \* the text query_ollama returned, a token sequence
    parsed_out          \* what parse_response returned for it

\* The state of the stand-alone runs of the Validator, the Resume Tracker and the Writer.
\* The state of the stand-alone runs on record contents, the CharacterContext and
\* parse_response.
ctx == <<mentioned_characters, vcall, vobj, vrec, tpc, last_read, response, parsed_out>>

aux == <<call, returned, orig, damage, loaded, write_lock, wpc, wbatch, wnext, wbuf, ctx>>

\* aux without mentioned_characters.
auxRest == <<call, returned, orig, damage, loaded, write_lock, wpc, wbatch, wnext, wbuf,
             vcall, vobj, vrec, tpc, last_read, response, parsed_out>>

vars == <<store, pc, processed_indices, batches, fut, attempt, result,
          abandoned, yielded, stop_processing, restarts, killed, prevStore, prevDone, aux>>

\* ----------------------------------------------------------------- Batcher
AllPositions == [i \in 1 .. NumSentences |-> i - 1]

\* Lines 453-457 without the test of line 456.
EverySentence(pi) == AllPositions

\* Lines 453-457.
sentences_to_process(pi) == SelectSeq(AllPositions, LAMBDA p : p \notin pi)

Min(a, b) == IF a < b THEN a ELSE b

\* Lines 469-483 with the anchor taken from the place in the filtered list.
BuildBatchesAnchoredInList(todo) ==
    LET nb == (Len(todo) + BATCH_SIZE - 1) \div BATCH_SIZE
    IN [b \in 1 .. nb |->
           LET units == SubSeq(todo, (b - 1) * BATCH_SIZE + 1, Min(b * BATCH_SIZE, Len(todo)))
           IN [sentences |-> units, start |-> (b - 1) * BATCH_SIZE]]

\* Lines 469-483: windows of BATCH_SIZE retained units, the anchor is the first one.
BuildBatches(todo) ==
    LET nb == (Len(todo) + BATCH_SIZE - 1) \div BATCH_SIZE
    IN [b \in 1 .. nb |->
           LET units == SubSeq(todo, (b - 1) * BATCH_SIZE + 1, Min(b * BATCH_SIZE, Len(todo)))
           IN [sentences |-> units, start |-> units[1]]]

\* ------------------------------------------------------ clean_and_validate
\* What the model returned at one place of the parsed list.
RawKinds == {"rec", "notext", "junk"}

\* Lines 156-180: a non-dict is skipped; a record without text takes the text of
\* original_sentences[idx] when there is one, and is skipped otherwise.
Survives(obj, idx, original_sentences) ==
    /\ obj.kind # "junk"
    /\ obj.kind = "rec" \/ idx < Len(original_sentences)

\* Lines 275-282, with the index counted over the emitted records.
EmitRenumbered(obj, idx, cleaned, original_sentences, base_index) ==
    [index |-> base_index + Len(cleaned),
     id |-> obj.id,
     brace |-> idx < Len(original_sentences) /\ original_sentences[idx + 1] \in BraceSentences]

\* Lines 275-282: the record for parsed[idx]; id names the raw record it was made of.
Emit(obj, idx, cleaned, original_sentences, base_index) ==
    [index |-> base_index + idx,
     id |-> obj.id,
     brace |-> idx < Len(original_sentences) /\ original_sentences[idx + 1] \in BraceSentences]

RECURSIVE CleanFrom(_, _, _, _, _)
\* The loop of line 154 from offset idx on.
CleanFrom(parsed, idx, cleaned, original_sentences, base_index) ==
    IF idx >= Len(parsed) THEN cleaned
    ELSE IF Survives(parsed[idx + 1], idx, original_sentences)
         THEN CleanFrom(parsed, idx + 1,
                        Append(cleaned, Emit(parsed[idx + 1], idx, cleaned,
                                             original_sentences, base_index)),
                        original_sentences, base_index)
         ELSE CleanFrom(parsed, idx + 1, cleaned, original_sentences, base_index)

clean_and_validate(parsed, original_sentences, base_index) ==
    CleanFrom(parsed, 0, <<>>, original_sentences, base_index)

\* ------------------------------------------------------------------ Writer
\* Lines 431-435 without the membership test.
WriteOneUnchecked(obj, st) ==
    IF obj.index >= 0
    THEN [store |-> st.store \o Fragment(obj), pi |-> st.pi \cup {obj.index}]
    ELSE st

\* Lines 431-435 with the index added and nothing written.
WriteOneKeepsStore(obj, st) ==
    IF obj.index \notin st.pi /\ obj.index >= 0
    THEN [store |-> st.store, pi |-> st.pi \cup {obj.index}]
    ELSE st

\* Lines 431-435 for one record, on st = [store, pi].
WriteOne(obj, st) ==
    IF obj.index \notin st.pi /\ obj.index >= 0
    THEN [store |-> st.store \o Fragment(obj), pi |-> st.pi \cup {obj.index}]
    ELSE st

RECURSIVE WriteFrom(_, _, _)
WriteFrom(batch_results, n, st) ==
    IF n > Len(batch_results) THEN st
    ELSE WriteFrom(batch_results, n + 1, WriteOne(batch_results[n], st))

\* Lines 427-436, the whole call (only main calls it, one future at a time).
write_batch_results(batch_results, st) == WriteFrom(batch_results, 1, st)

\* -------------------------------------------------------------------- runs
Futures == DOMAIN fut
Running == {i \in Futures : fut[i] = "running"}

\* What a fresh process starts with (lines 18-22): nothing but the store survives.
FreshProcess ==
    /\ UNCHANGED auxRest
    /\ mentioned_characters' = {}
    /\ pc' = "load"
    /\ processed_indices' = {}
    /\ batches' = <<>>
    /\ fut' = <<>>
    /\ attempt' = <<>>
    /\ result' = <<>>
    /\ abandoned' = {}
    /\ yielded' = {}
    /\ stop_processing' = FALSE
    /\ restarts' = restarts + 1

NoCall == [parsed |-> <<>>, original_sentences |-> <<>>, base_index |-> 0, at |-> "none"]
NotLoaded == [idx |-> {}, raised |-> FALSE, at |-> "none"]
Writers == 1 .. NumWriters
Workers == 1 .. MAX_PARALLEL_BATCHES
NoVCall == [pov_char_fallback |-> [t |-> "none", s |-> <<>>, items |-> <<>>], idx |-> 0, before |-> {}, accepted |-> {},
            at |-> "none"]
NoObj == [f \in {"text", "characters", "entities", "coref", "speaker"} |->
             [t |-> "absent", s |-> <<>>, items |-> <<>>]]
NoRecord == [emitted |-> FALSE, index |-> 0, text |-> <<>>, characters |-> <<>>,
             entities |-> <<>>, coref |-> <<>>, speaker |-> <<>>]
NotParsed == [value |-> <<>>, at |-> "none"]

\* Lines 18-22 for the stand-alone runs.
CtxIdle ==
    /\ mentioned_characters = {}
    /\ vcall = NoVCall
    /\ vobj = NoObj
    /\ vrec = NoRecord
    /\ tpc = [w \in Workers |-> "idle"]
    /\ last_read = {}
    /\ response = <<>>
    /\ parsed_out = NotParsed

AuxIdle ==
    /\ CtxIdle
    /\ call = NoCall
    /\ returned = <<>>
    /\ orig = <<>>
    /\ damage = 0
    /\ loaded = NotLoaded
    /\ write_lock = 0
    /\ wpc = [w \in Writers |-> "end"]
    /\ wbatch = [w \in Writers |-> <<>>]
    /\ wnext = [w \in Writers |-> 1]
    /\ wbuf = [w \in Writers |-> <<>>]

\* The state of a process that was just started on an absent store.
PipeIdle ==
    /\ store = <<>>
    /\ pc = "load"
    /\ processed_indices = {}
    /\ batches = <<>>
    /\ fut = <<>>
    /\ attempt = <<>>
    /\ result = <<>>
    /\ abandoned = {}
    /\ yielded = {}
    /\ stop_processing = FALSE
    /\ restarts = 0
    /\ killed = FALSE
    /\ prevStore = <<>>
    /\ prevDone = FALSE

Init == PipeIdle /\ AuxIdle

\* The names the records of a run can hold.
RunNames == {<<"M", "a", "r", "y">>}

\* Line 440; an exception leaving the call would end the process. The call adds the
\* characters of the records it reads to mentioned_characters (lines 374-376, 391-393,
\* 410-412); the store tokens do not show them, so they are any names.
Load ==
    /\ pc = "load"
    /\ processed_indices' = load_existing_output_safe(store).idx
    /\ pc' = IF load_existing_output_safe(store).raised THEN "aborted" ELSE "batch"
    /\ \E names \in SUBSET RunNames :
          /\ store = <<>> => names = {}
          /\ mentioned_characters' = mentioned_characters \cup names
    /\ UNCHANGED <<store, batches, fut, attempt, result, abandoned, yielded,
                   stop_processing, restarts, killed, prevStore, prevDone, auxRest>>

\* Lines 449-495: segment, filter, build the batches and submit them all; with
\* nothing left to process main returns (lines 459-462).
Batch ==
    /\ pc = "batch"
    /\ LET todo == sentences_to_process(processed_indices)
           bs == BuildBatches(todo)
       IN IF todo = <<>>
          THEN /\ pc' = "done"
               /\ UNCHANGED <<batches, fut, attempt, result>>
          ELSE /\ pc' = "drain"
               /\ batches' = bs
               /\ fut' = [i \in DOMAIN bs |-> "pending"]
               /\ attempt' = [i \in DOMAIN bs |-> 0]
               /\ result' = [i \in DOMAIN bs |-> <<>>]
    /\ UNCHANGED <<store, processed_indices, abandoned, yielded,
                   stop_processing, restarts, killed, prevStore, prevDone, aux>>

\* Lines 442-447 with the input file absent: sys.exit(1).
MissingInputAfterBatching ==
    /\ pc = "drain"
    /\ pc' = "exit1"
    /\ UNCHANGED <<store, processed_indices, batches, fut, attempt, result, abandoned,
                   yielded, stop_processing, restarts, killed, prevStore, prevDone, aux>>

\* Lines 442-447 with the input file absent: open() raises FileNotFoundError and
\* main ends the process with sys.exit(1).
MissingInput ==
    /\ pc = "batch"
    /\ pc' = "exit1"
    /\ UNCHANGED <<store, processed_indices, batches, fut, attempt, result, abandoned,
                   yielded, stop_processing, restarts, killed, prevStore, prevDone, aux>>

\* Lines 295-296 left out: the thread starts its batch whatever the stop flag.
StartBatchIgnoresStop(i) ==
    /\ pc \in {"drain", "check"}
    /\ i \in Futures
    /\ fut[i] = "pending"
    /\ \A j \in Futures : j < i => fut[j] # "pending"
    /\ Cardinality(Running) < MAX_PARALLEL_BATCHES
    /\ fut' = [fut EXCEPT ![i] = "running"]
    /\ UNCHANGED <<store, pc, processed_indices, batches, attempt, result,
                   abandoned, yielded, stop_processing, restarts, killed, prevStore,
                   prevDone, aux>>

\* A pool thread takes the oldest queued future (lines 491-495); process_batch
\* returns None at once when the stop flag is set (lines 295-296).
StartBatch(i) ==
    /\ pc \in {"drain", "check"}
    /\ i \in Futures
    /\ fut[i] = "pending"
    /\ \A j \in Futures : j < i => fut[j] # "pending"
    /\ Cardinality(Running) < MAX_PARALLEL_BATCHES
    /\ fut' = [fut EXCEPT ![i] = IF stop_processing THEN "finished" ELSE "running"]
    /\ UNCHANGED <<store, pc, processed_indices, batches, attempt, result,
                   abandoned, yielded, stop_processing, restarts, killed, prevStore,
                   prevDone, aux>>

\* Lines 318-326 as a `while True` loop: a failed attempt is always followed by another.
AttemptFailsUnbounded(i) ==
    /\ i \in Futures
    /\ fut[i] = "running"
    /\ attempt' = [attempt EXCEPT ![i] = attempt[i] + 1]
    /\ UNCHANGED <<store, pc, processed_indices, batches, fut, result, abandoned,
                   yielded, stop_processing, restarts, killed, prevStore, prevDone, aux>>

\* Lines 318-330 with the units of an abandoned batch marked as completed.
AttemptFailsMarksDone(i) ==
    /\ i \in Futures
    /\ fut[i] = "running"
    /\ attempt[i] < MAX_RETRIES
    /\ attempt' = [attempt EXCEPT ![i] = attempt[i] + 1]
    /\ IF attempt[i] + 1 = MAX_RETRIES
       THEN /\ fut' = [fut EXCEPT ![i] = "finished"]
            /\ abandoned' = abandoned \cup {i}
            /\ processed_indices' = processed_indices \cup
                   {batches[i].sentences[n] : n \in DOMAIN batches[i].sentences}
       ELSE UNCHANGED <<fut, abandoned, processed_indices>>
    /\ UNCHANGED <<store, pc, batches, result, yielded,
                   stop_processing, restarts, killed, prevStore, prevDone, aux>>

\* One attempt of lines 318-326 that gives no response or parses to nothing; after
\* MAX_RETRIES of them process_batch returns None (lines 328-330).
AttemptFails(i) ==
    /\ i \in Futures
    /\ fut[i] = "running"
    /\ attempt[i] < MAX_RETRIES
    /\ attempt' = [attempt EXCEPT ![i] = attempt[i] + 1]
    /\ IF attempt[i] + 1 = MAX_RETRIES
       THEN /\ fut' = [fut EXCEPT ![i] = "finished"]
            /\ abandoned' = abandoned \cup {i}
       ELSE UNCHANGED <<fut, abandoned>>
    /\ UNCHANGED <<store, pc, processed_indices, batches, result, yielded,
                   stop_processing, restarts, killed, prevStore, prevDone, aux>>

\* The lists parse_response can give for a batch of n units.
ParsedLists(n) ==
    UNION {[1 .. k -> RawKinds] : k \in 1 .. (n + MaxExtra)}

\* An attempt whose response parses (lines 323-326), then lines 332-347; the
\* Validator adds the names it accepts in the records it keeps (line 195).
AttemptParses(i) ==
    /\ i \in Futures
    /\ fut[i] = "running"
    /\ attempt[i] < MAX_RETRIES
    /\ \E kinds \in ParsedLists(Len(batches[i].sentences)) :
          LET parsed == [j \in DOMAIN kinds |-> [kind |-> kinds[j], id |-> j - 1]]
          IN result' = [result EXCEPT ![i] =
                 clean_and_validate(parsed, batches[i].sentences, batches[i].start)]
    /\ \E names \in SUBSET RunNames :
          /\ result'[i] = <<>> => names = {}
          /\ mentioned_characters' = mentioned_characters \cup names
    /\ attempt' = [attempt EXCEPT ![i] = attempt[i] + 1]
    /\ fut' = [fut EXCEPT ![i] = "finished"]
    /\ UNCHANGED <<store, pc, processed_indices, batches, abandoned, yielded,
                   stop_processing, restarts, killed, prevStore, prevDone, auxRest>>

\* Lines 497-504: as_completed yields a finished future, its records go to the Writer.
Handle(i) ==
    /\ pc = "drain"
    /\ i \in Futures \ yielded
    /\ fut[i] = "finished"
    /\ LET st == write_batch_results(result[i],
                                     [store |-> store, pi |-> processed_indices])
       IN /\ store' = st.store
          /\ processed_indices' = st.pi
    /\ yielded' = yielded \cup {i}
    /\ pc' = "check"
    /\ UNCHANGED <<batches, fut, attempt, result, abandoned, stop_processing,
                   restarts, killed, prevStore, prevDone, aux>>

\* Lines 506-511.
CheckStop ==
    /\ pc = "check"
    /\ IF stop_processing
       THEN /\ fut' = [i \in Futures |-> IF fut[i] = "pending" THEN "cancelled" ELSE fut[i]]
            /\ pc' = "exit"
       ELSE /\ pc' = "drain"
            /\ UNCHANGED fut
    /\ UNCHANGED <<store, processed_indices, batches, attempt, result,
                   abandoned, yielded, stop_processing, restarts, killed, prevStore,
                   prevDone, aux>>

\* as_completed is exhausted (line 497).
LoopEnds ==
    /\ pc = "drain"
    /\ yielded = Futures
    /\ pc' = "exit"
    /\ UNCHANGED <<store, processed_indices, batches, fut, attempt, result,
                   abandoned, yielded, stop_processing, restarts, killed, prevStore,
                   prevDone, aux>>

\* The end of the `with` block waiting for every future to have run.
ExitPoolWaitsForAll ==
    /\ pc = "exit"
    /\ \A i \in Futures : fut[i] = "finished"
    /\ pc' = "done"
    /\ UNCHANGED <<store, processed_indices, batches, fut, attempt, result,
                   abandoned, yielded, stop_processing, restarts, killed, prevStore,
                   prevDone, aux>>

\* The end of the `with` block as shutdown(wait=False).
ExitPoolNoWait ==
    /\ pc = "exit"
    /\ pc' = "done"
    /\ UNCHANGED <<store, processed_indices, batches, fut, attempt, result,
                   abandoned, yielded, stop_processing, restarts, killed, prevStore,
                   prevDone, aux>>

\* The end of the `with` block (line 491): shutdown waits for the running batches.
ExitPool ==
    /\ pc = "exit"
    /\ \A i \in Futures : fut[i] \in {"finished", "cancelled"}
    /\ pc' = "done"
    /\ UNCHANGED <<store, processed_indices, batches, fut, attempt, result,
                   abandoned, yielded, stop_processing, restarts, killed, prevStore,
                   prevDone, aux>>

\* SIGINT (lines 24-30).
signal_handler ==
    /\ pc # "done"
    /\ ~stop_processing
    /\ stop_processing' = TRUE
    /\ UNCHANGED <<store, pc, processed_indices, batches, fut, attempt, result,
                   abandoned, yielded, restarts, killed, prevStore, prevDone, aux>>

\* main has returned; the program is started again on the same input.
Restart ==
    /\ pc = "done"
    /\ restarts < MaxRestarts
    /\ FreshProcess
    /\ prevStore' = store
    /\ prevDone' = TRUE
    /\ UNCHANGED <<store, killed>>

\* The process is killed between two appends, and started again.
Kill ==
    /\ pc = "drain"
    /\ restarts < MaxRestarts
    /\ FreshProcess
    /\ killed' = TRUE
    /\ prevDone' = FALSE
    /\ UNCHANGED <<store, prevStore>>

\* The process is killed inside write_batch_results: a proper prefix of what the call
\* appends reaches the file.
KillInWrite(i) ==
    /\ pc = "drain"
    /\ restarts < MaxRestarts
    /\ i \in Futures \ yielded
    /\ fut[i] = "finished"
    /\ LET st == write_batch_results(result[i],
                                     [store |-> store, pi |-> processed_indices])
       IN \E n \in (Len(store) + 1) .. (Len(st.store) - 1) :
             store' = SubSeq(st.store, 1, n)
    /\ FreshProcess
    /\ killed' = TRUE
    /\ prevDone' = FALSE
    /\ UNCHANGED prevStore

Next ==
    \/ Load
    \/ MissingInput
    \/ Batch
    \/ \E i \in Futures : StartBatch(i)
    \/ \E i \in Futures : AttemptFails(i)
    \/ \E i \in Futures : AttemptParses(i)
    \/ \E i \in Futures : Handle(i)
    \/ CheckStop
    \/ LoopEnds
    \/ ExitPool
    \/ signal_handler
    \/ Restart
    \/ Kill
    \/ \E i \in Futures : KillInWrite(i)

Spec == Init /\ [][Next]_vars

\* A step of main or of a pool thread after the Resume Tracker, in a process whose
\* input file exists.
RunStep ==
    \/ Batch
    \/ \E i \in Futures : StartBatch(i)
    \/ \E i \in Futures : AttemptFails(i)
    \/ \E i \in Futures : AttemptParses(i)
    \/ \E i \in Futures : Handle(i)
    \/ CheckStop
    \/ LoopEnds
    \/ ExitPool

\* Processes that are not killed, with SIGINT at any moment.
NextFair ==
    \/ Load
    \/ RunStep
    \/ signal_handler
    \/ Restart

\* main and the pool threads are scheduled, and every query_ollama call returns
\* (timeout=120, line 43), so a step of the run that can be taken is taken. Load is
\* enabled exactly when pc = "load" and leaves that place, so weak fairness of Load is
\* written as []<>(pc # "load").
SpecFair ==
    Init /\ [][NextFair]_vars /\ []<>(pc # "load") /\ WF_vars(RunStep)

\* ------------------------------------ stand-alone run: clean_and_validate
pipeRest == <<pc, batches, fut, attempt, result, abandoned, yielded,
              stop_processing, restarts, killed, prevStore, prevDone, ctx>>

\* The parsed list with the given kinds; id is the place in the model's response.
ParsedOf(kinds) == [j \in DOMAIN kinds |-> [kind |-> kinds[j], id |-> j - 1]]

\* The batches main can build, for any CompletionSet (lines 452-483).
BatchShapes ==
    UNION {{BuildBatches(sentences_to_process(pi))[b] :
               b \in DOMAIN BuildBatches(sentences_to_process(pi))} :
           pi \in SUBSET Positions}

\* The calls process_batch can make at line 333.
CleanCalls ==
    UNION {{[parsed |-> ParsedOf(kinds), original_sentences |-> b.sentences,
             base_index |-> b.start, at |-> "called"] :
               kinds \in ParsedLists(Len(b.sentences))} :
           b \in BatchShapes}

InitClean ==
    /\ PipeIdle
    /\ CtxIdle
    /\ call \in CleanCalls
    /\ returned = <<>>
    /\ orig = <<>> /\ damage = 0 /\ loaded = NotLoaded
    /\ write_lock = 0
    /\ wpc = [w \in Writers |-> "end"]
    /\ wbatch = [w \in Writers |-> <<>>]
    /\ wnext = [w \in Writers |-> 1]
    /\ wbuf = [w \in Writers |-> <<>>]

\* Lines 135-292.
Validate ==
    /\ call.at = "called"
    /\ returned' = clean_and_validate(call.parsed, call.original_sentences,
                                      call.base_index)
    /\ call' = [call EXCEPT !.at = "returned"]
    /\ UNCHANGED <<store, processed_indices, pipeRest, orig, damage, loaded,
                   write_lock, wpc, wbatch, wnext, wbuf>>

NextClean == Validate

SpecClean == InitClean /\ [][NextClean]_vars

\* ---------------------------- stand-alone run: load_existing_output_safe
\* What a store of any content is made of.
AnyTokens ==
    {Tok(k, 0) : k \in {"{", "c{", "}", "s}", ",", "[", "]", "x", "idxbad", "charsbad"}}
    \cup {Tok("idx", v) : v \in {-1, 0}}

\* The file gets one more token of any kind.
PutToken(t) ==
    /\ loaded.at = "none"
    /\ Len(store) < MaxTokens
    /\ store' = Append(store, t)
    /\ UNCHANGED <<processed_indices, pipeRest, call, returned, orig, damage, loaded,
                   write_lock, wpc, wbatch, wnext, wbuf>>

\* Line 440 on the store as it is.
ResumeLoad ==
    /\ loaded.at = "none"
    /\ LET r == load_existing_output_safe(store)
       IN loaded' = [idx |-> r.idx, raised |-> r.raised, at |-> "returned"]
    /\ UNCHANGED <<store, processed_indices, pipeRest, call, returned, orig, damage,
                   write_lock, wpc, wbatch, wnext, wbuf>>

NextLoad ==
    \/ \E t \in AnyTokens : PutToken(t)
    \/ ResumeLoad

SpecLoad == Init /\ [][NextLoad]_vars

\* The records the Writer can be given: any index of the document, with or without
\* a brace in the text.
StoreRecords == {[index |-> i, id |-> 0, brace |-> b] : i \in Positions, b \in BOOLEAN}

RECURSIVE Fragments(_)
Fragments(recs) ==
    IF recs = <<>> THEN <<>> ELSE Fragment(Head(recs)) \o Fragments(Tail(recs))

\* The stores write_batch_results leaves when no process was killed: fragments with
\* distinct indices, each followed by its separator.
WriterStores ==
    {Fragments(recs) :
        recs \in {r \in UNION {[1 .. n -> StoreRecords] : n \in 1 .. MaxFragments} :
                     \A a, b \in DOMAIN r : a # b => r[a].index # r[b].index}}

InitTrunc ==
    /\ store \in WriterStores
    /\ orig = store
    /\ pc = "load"
    /\ processed_indices = {}
    /\ batches = <<>>
    /\ fut = <<>>
    /\ attempt = <<>>
    /\ result = <<>>
    /\ abandoned = {}
    /\ yielded = {}
    /\ stop_processing = FALSE
    /\ restarts = 0
    /\ killed = FALSE
    /\ prevStore = <<>>
    /\ prevDone = FALSE
    /\ CtxIdle
    /\ call = NoCall /\ returned = <<>>
    /\ damage = 0 /\ loaded = NotLoaded
    /\ write_lock = 0
    /\ wpc = [w \in Writers |-> "end"]
    /\ wbatch = [w \in Writers |-> <<>>]
    /\ wnext = [w \in Writers |-> 1]
    /\ wbuf = [w \in Writers |-> <<>>]

\* The end of the file is lost.
Truncate(n) ==
    /\ loaded.at = "none"
    /\ n \in 0 .. (Len(store) - 1)
    /\ store' = SubSeq(store, 1, n)
    /\ UNCHANGED <<processed_indices, pipeRest, call, returned, orig, damage, loaded,
                   write_lock, wpc, wbatch, wnext, wbuf>>

\* A token of the file is overwritten by text that is not JSON.
Garble(i) ==
    /\ loaded.at = "none"
    /\ damage < MaxDamage
    /\ i \in 1 .. Len(store)
    /\ store[i].k # "x"
    /\ store' = [store EXCEPT ![i] = Tok("x", 0)]
    /\ damage' = damage + 1
    /\ UNCHANGED <<processed_indices, pipeRest, call, returned, orig, loaded,
                   write_lock, wpc, wbatch, wnext, wbuf>>

NextTrunc ==
    \/ \E n \in 0 .. Len(store) : Truncate(n)
    \/ \E i \in 1 .. Len(store) : Garble(i)
    \/ ResumeLoad

SpecTrunc == InitTrunc /\ [][NextTrunc]_vars

\* ------------------------------------ stand-alone run: write_batch_results
\* The lists process_batch can return (line 347).
WriterBatches ==
    {clean_and_validate(c.parsed, c.original_sentences, c.base_index) : c \in CleanCalls}
    \ {<<>>}

InitWriter ==
    /\ PipeIdle
    /\ CtxIdle
    /\ call = NoCall /\ returned = <<>>
    /\ orig = <<>> /\ damage = 0 /\ loaded = NotLoaded
    /\ write_lock = 0
    /\ wpc = [w \in Writers |-> "call"]
    /\ wbatch \in [Writers -> WriterBatches]
    /\ wnext = [w \in Writers |-> 1]
    /\ wbuf = [w \in Writers |-> <<>>]

\* `with write_lock` lets the caller in whatever the lock's state.
LockIgnored(w) == TRUE
\* `with write_lock` (line 428) lets the caller in when no thread holds the lock.
LockFree(w) == write_lock = 0

\* The places of a caller inside the `with write_lock` block.
InScope(w) == wpc[w] \in {"test", "write", "add", "flush", "release"}

\* Lines 428-429: the lock is taken, the file opened for appending.
WriterEnter(w) ==
    /\ wpc[w] = "call"
    /\ LockFree(w)
    /\ write_lock' = w
    /\ wpc' = [wpc EXCEPT ![w] = "test"]
    /\ UNCHANGED <<store, processed_indices, pipeRest, call, returned, orig, damage,
                   loaded, wbatch, wnext, wbuf>>

\* Lines 430-432: the next record, and the test whether to write it.
WriterTest(w) ==
    /\ wpc[w] = "test"
    /\ IF wnext[w] > Len(wbatch[w])
       THEN /\ wpc' = [wpc EXCEPT ![w] = "flush"]
            /\ UNCHANGED wnext
       ELSE LET obj_index == wbatch[w][wnext[w]].index
            IN IF obj_index \notin processed_indices /\ obj_index >= 0
               THEN /\ wpc' = [wpc EXCEPT ![w] = "write"]
                    /\ UNCHANGED wnext
               ELSE /\ wnext' = [wnext EXCEPT ![w] = wnext[w] + 1]
                    /\ UNCHANGED wpc
    /\ UNCHANGED <<store, processed_indices, pipeRest, call, returned, orig, damage,
                   loaded, write_lock, wbatch, wbuf>>

\* Lines 433-434.
WriterWrite(w) ==
    /\ wpc[w] = "write"
    /\ wbuf' = [wbuf EXCEPT ![w] = wbuf[w] \o Fragment(wbatch[w][wnext[w]])]
    /\ wpc' = [wpc EXCEPT ![w] = "add"]
    /\ UNCHANGED <<store, processed_indices, pipeRest, call, returned, orig, damage,
                   loaded, write_lock, wbatch, wnext>>

\* Line 435.
WriterAdd(w) ==
    /\ wpc[w] = "add"
    /\ processed_indices' = processed_indices \cup {wbatch[w][wnext[w]].index}
    /\ wnext' = [wnext EXCEPT ![w] = wnext[w] + 1]
    /\ wpc' = [wpc EXCEPT ![w] = "test"]
    /\ UNCHANGED <<store, pipeRest, call, returned, orig, damage, loaded, write_lock,
                   wbatch, wbuf>>

\* Line 436 and the end of `with open`: what was written reaches the file.
WriterFlush(w) ==
    /\ wpc[w] = "flush"
    /\ store' = store \o wbuf[w]
    /\ wbuf' = [wbuf EXCEPT ![w] = <<>>]
    /\ wpc' = [wpc EXCEPT ![w] = "release"]
    /\ UNCHANGED <<processed_indices, pipeRest, call, returned, orig, damage, loaded,
                   write_lock, wbatch, wnext>>

\* The end of `with write_lock`.
WriterLeave(w) ==
    /\ wpc[w] = "release"
    /\ write_lock' = 0
    /\ wpc' = [wpc EXCEPT ![w] = "end"]
    /\ UNCHANGED <<store, processed_indices, pipeRest, call, returned, orig, damage,
                   loaded, wbatch, wnext, wbuf>>

NextWriter ==
    \/ \E w \in Writers : WriterEnter(w)
    \/ \E w \in Writers : WriterTest(w)
    \/ \E w \in Writers : WriterWrite(w)
    \/ \E w \in Writers : WriterAdd(w)
    \/ \E w \in Writers : WriterFlush(w)
    \/ \E w \in Writers : WriterLeave(w)

SpecWriter == InitWriter /\ [][NextWriter]_vars

\* ----------------------------------------------------------------- strings
(* A Python str is a sequence of one-character strings.                    *)
\* The characters that occur, in code point order.
CodePoints ==
    <<" ", "'", ".", "5", "A", "B", "C", "D", "E", "F", "G", "H", "I", "J", "K", "L",
      "M", "N", "O", "P", "Q", "R", "S", "T", "U", "V", "W", "X", "Y", "Z", "[", "]",
      "a", "b", "c", "d", "e", "f", "g", "h", "i", "j", "k", "l", "m", "n", "o", "p",
      "q", "r", "s", "t", "u", "v", "w", "x", "y", "z">>

Ord(ch) == CHOOSE i \in DOMAIN CodePoints : CodePoints[i] = ch
UpperLetters ==
    <<"A", "B", "C", "D", "E", "F", "G", "H", "I", "J", "K", "L", "M", "N", "O", "P",
      "Q", "R", "S", "T", "U", "V", "W", "X", "Y", "Z">>

LowerLetters ==
    <<"a", "b", "c", "d", "e", "f", "g", "h", "i", "j", "k", "l", "m", "n", "o", "p",
      "q", "r", "s", "t", "u", "v", "w", "x", "y", "z">>

\* c.isupper() for one character.
isupper(ch) == \E i \in DOMAIN UpperLetters : UpperLetters[i] = ch
LowerChar(ch) ==
    IF isupper(ch) THEN LowerLetters[CHOOSE i \in DOMAIN UpperLetters : UpperLetters[i] = ch]
    ELSE ch
\* s.lower()
lower(s) == [i \in DOMAIN s |-> LowerChar(s[i])]

RECURSIVE lstrip(_)
lstrip(s) == IF s # <<>> /\ Head(s) = " " THEN lstrip(Tail(s)) ELSE s
RECURSIVE rstrip(_)
rstrip(s) ==
    IF s # <<>> /\ s[Len(s)] = " " THEN rstrip(SubSeq(s, 1, Len(s) - 1)) ELSE s
\* s.strip()
strip(s) == rstrip(lstrip(s))

\* c in text
Contains(c, text) ==
    \E i \in 1 .. (Len(text) - Len(c) + 1) : SubSeq(text, i, i + Len(c) - 1) = c

RECURSIVE SplitFrom(_, _, _)
\* s.split(): the maximal runs without whitespace; word is the run being read.
SplitFrom(s, i, word) ==
    IF i > Len(s) THEN (IF word = <<>> THEN {} ELSE {word})
    ELSE IF s[i] = " "
         THEN (IF word = <<>> THEN {} ELSE {word}) \cup SplitFrom(s, i + 1, <<>>)
         ELSE SplitFrom(s, i + 1, Append(word, s[i]))
split(s) == SplitFrom(s, 1, <<>>)

\* re.sub(r'[\[\]]', '', s)
StripBrackets(s) == SelectSeq(s, LAMBDA ch : ch \notin {"[", "]"})

RECURSIVE StrLess(_, _)
\* a < b for two str.
StrLess(a, b) ==
    IF b = <<>> THEN FALSE
    ELSE IF a = <<>> THEN TRUE
    ELSE IF Head(a) # Head(b) THEN Ord(Head(a)) < Ord(Head(b))
    ELSE StrLess(Tail(a), Tail(b))

\* sorted(list(names))[0]
FirstSorted(names) == CHOOSE a \in names : \A b \in names : a = b \/ StrLess(a, b)

\* Line 139.
PRONOUNS ==
    {<<"i">>, <<"m", "e">>, <<"m", "y">>, <<"m", "i", "n", "e">>, <<"h", "e">>,
     <<"s", "h", "e">>, <<"i", "t">>, <<"t", "h", "e", "y">>, <<"h", "i", "s">>,
     <<"h", "e", "r">>, <<"i", "t", "s">>, <<"t", "h", "e", "i", "r">>,
     <<"h", "i", "m">>, <<"t", "h", "e", "m">>, <<"w", "e">>, <<"u", "s">>,
     <<"o", "u", "r">>}

\* Line 141.
BODY_PARTS ==
    {<<"h", "e", "a", "d">>, <<"h", "e", "a", "d", "s">>, <<"h", "a", "n", "d">>,
     <<"h", "a", "n", "d", "s">>, <<"e", "y", "e">>, <<"e", "y", "e", "s">>,
     <<"a", "r", "m">>, <<"a", "r", "m", "s">>, <<"l", "e", "g">>,
     <<"l", "e", "g", "s">>, <<"b", "o", "d", "y">>, <<"b", "o", "d", "i", "e", "s">>,
     <<"f", "i", "n", "g", "e", "r">>, <<"f", "i", "n", "g", "e", "r", "s">>,
     <<"p", "a", "l", "m">>, <<"p", "a", "l", "m", "s">>, <<"b", "r", "a", "i", "n">>,
     <<"b", "r", "a", "i", "n", "s">>, <<"t", "e", "m", "p", "l", "e">>,
     <<"t", "e", "m", "p", "l", "e", "s">>, <<"b", "a", "c", "k">>,
     <<"l", "i", "m", "b", "s">>, <<"g", "a", "z", "e">>,
     <<"v", "i", "s", "i", "o", "n">>, <<"f", "a", "c", "e">>,
     <<"c", "h", "e", "s", "t">>}

\* Line 144.
ABSTRACT ==
    {<<"p", "a", "i", "n">>, <<"t", "h", "o", "u", "g", "h", "t">>,
     <<"t", "h", "o", "u", "g", "h", "t", "s">>, <<"m", "i", "n", "d">>,
     <<"m", "i", "n", "d", "s">>, <<"s", "t", "r", "e", "n", "g", "t", "h">>,
     <<"c", "o", "n", "f", "u", "s", "i", "o", "n">>,
     <<"d", "a", "r", "k", "n", "e", "s", "s">>, <<"s", "l", "e", "e", "p">>,
     <<"d", "e", "a", "t", "h">>, <<"w", "o", "r", "k">>, <<"t", "i", "m", "e">>,
     <<"f", "o", "c", "u", "s">>, <<"m", "e", "m", "o", "r", "y">>,
     <<"f", "e", "e", "l", "i", "n", "g">>}

\* Line 146.
EXCLUDED == PRONOUNS \cup BODY_PARTS \cup ABSTRACT
\* Line 245.
FIRST_PERSON ==
    {<<"i">>, <<"m", "y">>, <<"m", "e">>, <<"i", "'", "m">>, <<"i", "'", "v", "e">>,
     <<"i", "'", "d">>}

Narrator == <<"N", "a", "r", "r", "a", "t", "o", "r">>

UnknownCharacter == <<"U", "n", "k", "n", "o", "w", "n", " ", "C", "h", "a", "r", "a", "c", "t", "e", "r">>

\* ------------------------------------------- clean_and_validate: contents
(* A JSON value of the parsed response: t is its type, s the str it is or  *)
(* that str() makes of it (str(5) = "5", str([]) = "[]"), items the        *)
(* elements of a list or the key/value pairs of a dict.                    *)
Str(s) == [t |-> "str", s |-> s, items |-> <<>>]
None == [t |-> "none", s |-> <<>>, items |-> <<>>]
Absent == [t |-> "absent", s |-> <<>>, items |-> <<>>]
Num == [t |-> "num", s |-> <<"5">>, items |-> <<>>]
ListV(items) ==
    [t |-> "list", s |-> IF items = <<>> THEN <<"[", "]">> ELSE <<>>, items |-> items]
DictV(pairs) == [t |-> "dict", s |-> <<>>, items |-> pairs]

\* `if v` for a value.
Truthy(v) ==
    \/ v.t = "num"
    \/ v.t = "str" /\ v.s # <<>>
    \/ v.t \in {"list", "dict"} /\ v.items # <<>>

RECURSIVE Join(_)
\* " ".join(strs)
Join(strs) ==
    IF strs = <<>> THEN <<>>
    ELSE IF Len(strs) = 1 THEN strs[1]
    ELSE strs[1] \o <<" ">> \o Join(Tail(strs))

\* [str(item) for item in items if item]
TruthyStrs(items) ==
    LET kept == SelectSeq(items, Truthy) IN [i \in DOMAIN kept |-> kept[i].s]

\* Lines 159-177: the text of the raw record, or of the sentence at its offset.
TextOf(obj, idx, original_sentences) ==
    LET v == obj.text
        given == IF v.t \in {"str", "num"} THEN v.s
                 ELSE IF v.t = "list" THEN Join(TruthyStrs(v.items))
                 ELSE <<>>
    IN IF strip(given) # <<>> THEN strip(given)
       ELSE IF idx < Len(original_sentences) THEN strip(original_sentences[idx + 1])
       ELSE <<>>

\* Lines 182-184 and 197-199: a value that is no list counts as the empty list.
Candidates(v) == IF v.t = "list" THEN v.items ELSE <<>>

\* Line 193 without the test `c in text`.
ValidCharacterAnyText(c, text) ==
    /\ c # <<>>
    /\ Len(c) > 1
    /\ isupper(c[1])
    /\ lower(c) \notin PRONOUNS

\* Line 193.
ValidCharacter(c, text) ==
    /\ c # <<>>
    /\ Len(c) > 1
    /\ isupper(c[1])
    /\ lower(c) \notin PRONOUNS
    /\ Contains(c, text)

RECURSIVE valid_characters(_, _)
\* Lines 185-194: None is skipped, any other candidate is taken as str and stripped.
valid_characters(cands, text) ==
    IF cands = <<>> THEN <<>>
    ELSE LET c == strip(Head(cands).s)
         IN IF Head(cands).t # "none" /\ ValidCharacter(c, text)
            THEN <<c>> \o valid_characters(Tail(cands), text)
            ELSE valid_characters(Tail(cands), text)

RECURSIVE KeptEntities(_)
\* Lines 200-209.
KeptEntities(cands) ==
    IF cands = <<>> THEN <<>>
    ELSE LET e == strip(Head(cands).s)
         IN IF Head(cands).t # "none" /\ e # <<>> /\ lower(e) \notin EXCLUDED
            THEN <<e>> \o KeptEntities(Tail(cands))
            ELSE KeptEntities(Tail(cands))

Range(f) == {f[x] : x \in DOMAIN f}

\* Lines 200-209 only: the accepted characters are not added.
EntitiesOnly(ents, chars) == ents

RECURSIVE AppendMissing(_, _)
\* Lines 210-212.
AppendMissing(ents, chars) ==
    IF chars = <<>> THEN ents
    ELSE IF Head(chars) \in Range(ents) THEN AppendMissing(ents, Tail(chars))
    ELSE AppendMissing(Append(ents, Head(chars)), Tail(chars))

\* Lines 197-212.
valid_entities(v, chars) == AppendMissing(KeptEntities(Candidates(v)), chars)

\* Lines 219-229: the referent as a stripped str; skip: the pair is passed over.
ReferentStr(r) ==
    LET s == IF r.t = "str" THEN r.s
             ELSE IF r.t = "list" /\ r.items # <<>>
                  THEN (IF TruthyStrs(r.items) = <<>> THEN <<>>
                        ELSE TruthyStrs(r.items)[1])
             ELSE r.s
    IN [skip |-> r.t = "none" \/ strip(s) = <<>>, s |-> strip(s)]

\* fixed_coref[pronoun] = referent
Put(d, k, v) == [x \in DOMAIN d \cup {k} |-> IF x = k THEN v ELSE d[x]]

\* Lines 238-242 with a dropped pair emptying the dict.
FixPairOrClear(pronoun, referent, fixed) ==
    LET ref == strip(StripBrackets(referent))
    IN IF pronoun = lower(ref) \/ lower(ref) \in PRONOUNS THEN <<>>
       ELSE IF Len(ref) > 1 /\ isupper(ref[1]) THEN Put(fixed, pronoun, ref)
       ELSE <<>>

\* Lines 238-242 for one pair whose sides are non-empty strs.
FixPair(pronoun, referent, fixed) ==
    LET ref == strip(StripBrackets(referent))
    IN IF pronoun = lower(ref) \/ lower(ref) \in PRONOUNS THEN fixed
       ELSE IF Len(ref) > 1 /\ isupper(ref[1]) THEN Put(fixed, pronoun, ref)
       ELSE fixed

RECURSIVE FixCoref(_, _)
\* Lines 218-242: the loop over coref.items().
FixCoref(pairs, fixed) ==
    IF pairs = <<>> THEN fixed
    ELSE LET r == ReferentStr(Head(pairs).referent)
             pronoun == lower(strip(Head(pairs).pronoun))
         IN IF r.skip \/ pronoun = <<>> THEN FixCoref(Tail(pairs), fixed)
            ELSE FixCoref(Tail(pairs), FixPair(pronoun, r.s, fixed))

\* Lines 214-242.
fixed_coref(v) == FixCoref(IF v.t = "dict" THEN v.items ELSE <<>>, <<>>)

\* Line 245.
has_first_person(text) == split(lower(text)) \cap FIRST_PERSON # {}

\* Lines 247-255.
SpeakerOf(v) ==
    strip(IF v.t = "str" THEN v.s
          ELSE IF v.t = "list" /\ v.items # <<>>
               THEN (IF Truthy(v.items[1]) THEN v.items[1].s ELSE Narrator)
          ELSE IF v.t \in {"none", "absent"} THEN Narrator
          ELSE v.s)

\* Line 257.
NeedsPov(speaker, text) ==
    /\ has_first_person(text)
    /\ speaker \in {Narrator, <<>>} \/ lower(speaker) \in PRONOUNS

\* Lines 258-261.
current_pov_char(pov_char_fallback, chars) ==
    IF chars # <<>> THEN chars[1]
    ELSE IF Truthy(pov_char_fallback) THEN pov_char_fallback.s
    ELSE UnknownCharacter

\* Lines 265-270.
Backfill(fixed, text, pov) ==
    LET words == split(lower(text))
        missing == {k \in {<<"i">>, <<"m", "y">>, <<"m", "e">>} :
                       k \in words /\ k \notin DOMAIN fixed}
    IN [x \in DOMAIN fixed \cup missing |-> IF x \in DOMAIN fixed THEN fixed[x] ELSE pov]

\* Lines 272-273 left out.
FinalSpeakerUnchecked(speaker) == speaker

\* Lines 272-273.
FinalSpeaker(speaker) ==
    IF speaker = <<>> \/ lower(speaker) \in PRONOUNS THEN Narrator ELSE speaker

\* Lines 155-282 for one dict: the record appended for it, emitted FALSE when the
\* entry is skipped for lack of a text (lines 178-180).
CleanOne(obj, idx, original_sentences, base_index, pov_char_fallback) ==
    LET text == TextOf(obj, idx, original_sentences)
        chars == valid_characters(Candidates(obj.characters), text)
        ents == valid_entities(obj.entities, chars)
        coref == fixed_coref(obj.coref)
        speaker == SpeakerOf(obj.speaker)
        pov == current_pov_char(pov_char_fallback, chars)
        resolved == NeedsPov(speaker, text) /\ pov # UnknownCharacter
    IN IF text = <<>> THEN NoRecord
       ELSE [emitted |-> TRUE,
             index |-> base_index + idx,
             text |-> text,
             characters |-> chars,
             entities |-> ents,
             coref |-> IF resolved THEN Backfill(coref, text, pov) ELSE coref,
             speaker |-> FinalSpeaker(IF resolved THEN pov ELSE speaker)]

\* Lines 150-152.
pov_char_fallback(names) == IF names = {} THEN None ELSE Str(FirstSorted(names))

\* ------------------------------------ stand-alone run: contents of the records
\* The document of the run: the sentences of the batch.
HeSaidHello ==
    <<"H", "e", " ", "s", "a", "i", "d", " ", "h", "e", "l", "l", "o", ".">>
MaryLaughed ==
    <<"M", "a", "r", "y", " ", "l", "a", "u", "g", "h", "e", "d", ".">>
ISawPain ==
    <<"I", " ", "s", "a", "w", " ", "P", "a", "i", "n">>

DocSentences == <<HeSaidHello, MaryLaughed>>

SeqsUpTo(S, n) == UNION {[1 .. k -> S] : k \in 0 .. n}

\* What the model may give for "text": the sentence, another text, nothing.
TextValues ==
    {Str(DocSentences[1]), Str(DocSentences[2]), Str(ISawPain), Absent}

\* Candidate names: in the text or not, a pronoun, a word of the exclusion set,
\* padded, of one character, in lower case, null, a number.
CharacterCandidates ==
    {Str(<<"M", "a", "r", "y">>), Str(<<"B", "o", "b">>), Str(<<"H", "e">>), Str(<<"P", "a", "i", "n">>), Str(<<" ", "M", "a", "r", "y", " ">>), Str(<<"I">>),
     Str(<<"l", "a", "u", "g", "h", "e", "d">>), None, Num}

CharacterValues ==
    {ListV(c) : c \in SeqsUpTo(CharacterCandidates, MaxCandidates)}
    \cup {Absent, Str(<<"M", "a", "r", "y">>)}

EntityValues ==
    {ListV(e) : e \in SeqsUpTo({Str(<<"M", "a", "r", "y">>), Str(<<"P", "a", "i", "n">>), Str(<<"S", "w", "o", "r", "d">>), Str(<<"h", "e", "l", "l", "o">>),
                                None}, MaxEntities)}
    \cup {Absent}

Referents ==
    {Str(<<"M", "a", "r", "k">>), Str(<<"h", "e">>), Str(<<"H", "e">>), Str(Narrator), Str(<<"[", "M", "a", "r", "k", "]">>), Str(<<>>),
     Str(<<"M">>), Str(<<"m", "a", "r", "k">>), None, Num, ListV(<<>>), ListV(<<Str(<<>>), Str(<<"M", "a", "r", "k">>)>>)}

CorefValues ==
    {DictV(p) : p \in SeqsUpTo({[pronoun |-> k, referent |-> r] :
                                    k \in {<<"h", "e">>, <<"I">>}, r \in Referents}, MaxPairs)}
    \cup {Absent, Num}

SpeakerValues ==
    {Absent, None, Num, Str(Narrator), Str(<<>>), Str(<<"h", "e">>), Str(<<"H", "e">>), Str(<<"M", "a", "r", "y">>),
     Str(<<" ">>), ListV(<<>>), ListV(<<Str(<<"s", "h", "e">>)>>), ListV(<<Str(<<>>)>>)}

\* At most one candidate name: none, one of the text, one that is elsewhere.
FewCharacters ==
    {Absent, ListV(<<Str(<<"M", "a", "r", "y">>)>>), ListV(<<Str(<<"P", "a", "i", "n">>)>>), ListV(<<Str(<<"B", "o", "b">>)>>)}

\* The raw records of the runs.  Every text comes with every list of candidate names;
\* with few names, with every list of entities; with every coref and a speaker that
\* is absent, a pronoun or a name; with every speaker and no coref or one for "I";
\* and a coref of two pairs, one for "he" and one for "I", on a text without names.
RawObjs ==
    {[text |-> Str(HeSaidHello), characters |-> Absent, entities |-> Absent,
      coref |-> DictV(<<[pronoun |-> <<"h", "e">>, referent |-> r1],
                        [pronoun |-> <<"I">>, referent |-> r2]>>),
      speaker |-> Absent] : r1 \in Referents, r2 \in Referents}
    \cup
    {[text |-> t, characters |-> c, entities |-> Absent, coref |-> Absent,
      speaker |-> Absent] : t \in TextValues, c \in CharacterValues}
    \cup
    {[text |-> t, characters |-> c, entities |-> e, coref |-> Absent,
      speaker |-> Absent] : t \in TextValues, c \in FewCharacters, e \in EntityValues}
    \cup
    {[text |-> t, characters |-> c, entities |-> Absent, coref |-> k, speaker |-> s] :
        t \in TextValues, c \in FewCharacters, k \in CorefValues,
        s \in {Absent, Str(<<"h", "e">>), Str(<<"M", "a", "r", "y">>)}}
    \cup
    {[text |-> t, characters |-> c, entities |-> Absent, coref |-> k, speaker |-> s] :
        t \in TextValues, c \in FewCharacters,
        k \in {Absent, DictV(<<[pronoun |-> <<"I">>, referent |-> Str(<<"M", "a", "r", "k">>)]>>)},
        s \in SpeakerValues}

\* What mentioned_characters may hold when the call starts: names of earlier batches,
\* and whatever str the Resume Tracker found in a store (lines 374-376).
Contexts ==
    {{}, {<<"B", "o", "b">>, <<"M", "a", "r", "y">>}, {<<"h", "e">>}, {Narrator}, {<<>>, <<"M", "a", "r", "y">>}}

InitRecord ==
    /\ PipeIdle
    /\ call = NoCall /\ returned = <<>>
    /\ orig = <<>> /\ damage = 0 /\ loaded = NotLoaded
    /\ write_lock = 0
    /\ wpc = [w \in Writers |-> "end"]
    /\ wbatch = [w \in Writers |-> <<>>]
    /\ wnext = [w \in Writers |-> 1]
    /\ wbuf = [w \in Writers |-> <<>>]
    /\ mentioned_characters \in Contexts
    /\ vcall = NoVCall
    /\ vobj = NoObj
    /\ vrec = NoRecord
    /\ tpc = [w \in Workers |-> "idle"]
    /\ last_read = {}
    /\ response = <<>>
    /\ parsed_out = NotParsed

pipeline == <<store, processed_indices, pc, batches, fut, attempt, result, abandoned,
              yielded, stop_processing, restarts, killed, prevStore, prevDone>>
writerVars == <<call, returned, orig, damage, loaded, write_lock, wpc, wbatch, wnext,
                wbuf>>

\* Lines 148-152: clean_and_validate is called.
CallValidator ==
    /\ vcall.at = "none"
    /\ vcall' = [pov_char_fallback |-> pov_char_fallback(mentioned_characters),
                 idx |-> 0, before |-> mentioned_characters, accepted |-> {},
                 at |-> "loop"]
    /\ UNCHANGED <<pipeline, writerVars, mentioned_characters, vobj, vrec, tpc,
                   last_read, response, parsed_out>>

\* One turn of the loop of line 154, for the raw record obj at offset vcall.idx.
CleanNext(obj) ==
    /\ vcall.at = "loop"
    /\ vcall.idx < MaxRecords
    /\ LET rec == CleanOne(obj, vcall.idx, DocSentences, 0, vcall.pov_char_fallback)
       IN /\ vrec' = rec
          /\ mentioned_characters' = mentioned_characters \cup Range(rec.characters)
          /\ vcall' = [vcall EXCEPT !.idx = vcall.idx + 1,
                                    !.accepted = vcall.accepted \cup Range(rec.characters),
                                    !.at = "appended"]
    /\ vobj' = obj
    /\ UNCHANGED <<pipeline, writerVars, tpc, last_read, response, parsed_out>>

\* The loop of line 154 goes to its next turn.
NextTurn ==
    /\ vcall.at = "appended"
    /\ vcall' = [vcall EXCEPT !.at = "loop"]
    /\ vobj' = NoObj
    /\ vrec' = NoRecord
    /\ UNCHANGED <<pipeline, writerVars, mentioned_characters, tpc, last_read, response,
                   parsed_out>>

\* Line 292: parsed is exhausted.
ReturnValidator ==
    /\ vcall.at = "loop"
    /\ vcall.idx > 0
    /\ vcall' = [vcall EXCEPT !.at = "returned"]
    /\ UNCHANGED <<pipeline, writerVars, mentioned_characters, vobj, vrec, tpc,
                   last_read, response, parsed_out>>

NextRecord ==
    \/ CallValidator
    \/ \E obj \in RawObjs : CleanNext(obj)
    \/ NextTurn
    \/ ReturnValidator

SpecRecord == InitRecord /\ [][NextRecord]_vars

\* ------------------------------ stand-alone run: the CharacterContext of a run
\* The names a validated record can hold, and the strs a store can hold.
NamePool == {<<"M", "a", "r", "y">>, <<"B", "o", "b">>, <<"P", "a", "i", "n">>}
StoreNames == NamePool \cup {<<"h", "e">>}

\* mentioned_characters = {c}
ResetToName(names, c) == {c}
\* mentioned_characters.add(c) (lines 195, 376, 393, 412).
AddName(names, c) == names \cup {c}

\* Lines 374-376: the Resume Tracker, in the main thread, adds a str of a stored record.
TrackerAdd(c) ==
    /\ loaded.at = "none"
    /\ mentioned_characters' = AddName(mentioned_characters, c)
    /\ UNCHANGED <<pipeline, call, returned, orig, damage, loaded, write_lock, wpc,
                   wbatch, wnext, wbuf, vcall, vobj, vrec, tpc, last_read, response,
                   parsed_out>>

\* Line 440 returns; the pool is created afterwards (line 491).
TrackerReturn ==
    /\ loaded.at = "none"
    /\ loaded' = [loaded EXCEPT !.at = "returned"]
    /\ UNCHANGED <<pipeline, call, returned, orig, damage, write_lock, wpc, wbatch,
                   wnext, wbuf, ctx>>

\* Line 320: a pool thread builds the prompt of an attempt from the set as it is.
WorkerPrompt(w) ==
    /\ loaded.at = "returned"
    /\ tpc[w] \in {"idle", "queried"}
    /\ last_read' = mentioned_characters
    /\ tpc' = [tpc EXCEPT ![w] = "queried"]
    /\ UNCHANGED <<pipeline, writerVars, mentioned_characters, vcall, vobj, vrec,
                   response, parsed_out>>

\* Lines 333, 151-152: the thread enters clean_and_validate and reads the set.
WorkerValidate(w) ==
    /\ tpc[w] = "queried"
    /\ last_read' = mentioned_characters
    /\ tpc' = [tpc EXCEPT ![w] = "validating"]
    /\ UNCHANGED <<pipeline, writerVars, mentioned_characters, vcall, vobj, vrec,
                   response, parsed_out>>

\* Line 195: the thread adds an accepted name.
WorkerAdd(w, c) ==
    /\ tpc[w] = "validating"
    /\ mentioned_characters' = AddName(mentioned_characters, c)
    /\ UNCHANGED <<pipeline, writerVars, vcall, vobj, vrec, tpc, last_read, response,
                   parsed_out>>

\* Lines 292, 347: the thread is free for its next batch.
WorkerReturn(w) ==
    /\ tpc[w] \in {"queried", "validating"}
    /\ tpc' = [tpc EXCEPT ![w] = "idle"]
    /\ UNCHANGED <<pipeline, writerVars, mentioned_characters, vcall, vobj, vrec,
                   last_read, response, parsed_out>>

NextContext ==
    \/ \E c \in StoreNames : TrackerAdd(c)
    \/ TrackerReturn
    \/ \E w \in Workers : WorkerPrompt(w)
    \/ \E w \in Workers : WorkerValidate(w)
    \/ \E w \in Workers : \E c \in NamePool : WorkerAdd(w, c)
    \/ \E w \in Workers : WorkerReturn(w)

SpecContext == Init /\ [][NextContext]_vars

\* --------------------------------------------- stand-alone run: parse_response
(* The response is a sequence of tokens:                                   *)
(*   "["  "]"  ","   brackets and commas outside string literals           *)
(*   "{d}"  an object written with double quotes, {"text": "Ok."}          *)
(*   "{s}"  the same object written with single quotes, {'text': 'Ok.'}    *)
(*   "{a}"  an object in double quotes with an apostrophe in a string      *)
(*   "x"    any other text without brackets                                *)
ResponseTokens == {"[", "]", ",", "{d}", "{s}", "{a}", "x"}

RECURSIVE AsJson(_)
\* The response as json.loads reads it: only "{d}" and "{a}" are objects.
AsJson(r) ==
    IF r = <<>> THEN <<>>
    ELSE (IF Head(r) \in {"{d}", "{a}"} THEN <<Tok("{", 0), Tok("}", 0)>>
          ELSE IF Head(r) \in {"[", "]", ","} THEN <<Tok(Head(r), 0)>>
          ELSE <<Tok("x", 0)>>) \o AsJson(Tail(r))

\* What json.loads(r) returns, as the list of the kinds of its elements; line 121
\* wraps a dict into a list.
Loaded(r) ==
    IF Head(r) = "[" THEN [n \in DOMAIN ListAt(AsJson(r), 1) |->
                              IF ListAt(AsJson(r), 1)[n].isdict THEN "dict" ELSE "list"]
    ELSE <<"dict">>

\* re.search(r'\[[\s\S]*\]'): from the first "[" to the last "]" behind it.
ArrayMatch(r) ==
    LET opens == {i \in DOMAIN r : r[i] = "["}
        first == CHOOSE i \in opens : \A j \in opens : i <= j
        closes == {i \in DOMAIN r : r[i] = "]" /\ i > first}
        last == CHOOSE i \in closes : \A j \in closes : j <= i
    IN IF opens = {} \/ closes = {} THEN <<>> ELSE SubSeq(r, first, last)

\* Line 127: every single quote becomes a double quote.
ReplaceQuotes(r) ==
    [i \in DOMAIN r |-> IF r[i] = "{s}" THEN "{d}" ELSE IF r[i] = "{a}" THEN "x" ELSE r[i]]

\* Line 128: a comma directly before a closing bracket goes.
DropTrailingCommas(r) ==
    LET keep == {i \in DOMAIN r : ~(r[i] = "," /\ i < Len(r) /\ r[i + 1] = "]")}
        nth(n) == CHOOSE i \in keep : Cardinality({j \in keep : j < i}) = n - 1
    IN [n \in 1 .. Cardinality(keep) |-> r[nth(n)]]

\* Lines 127-128.
Normalized(r) == DropTrailingCommas(ReplaceQuotes(r))

\* Lines 113-133.
parse_response(r) ==
    IF r = <<>> THEN <<>>
    ELSE IF JsonOK(AsJson(r)) THEN Loaded(r)
    ELSE IF ArrayMatch(r) # <<>> /\ JsonOK(AsJson(Normalized(ArrayMatch(r))))
         THEN Loaded(Normalized(ArrayMatch(r)))
    ELSE <<>>

\* query_ollama returns one more token of text.
Respond(t) ==
    /\ parsed_out.at = "none"
    /\ Len(response) < MaxResponse
    /\ response' = Append(response, t)
    /\ UNCHANGED <<pipeline, writerVars, mentioned_characters, vcall, vobj, vrec, tpc,
                   last_read, parsed_out>>

\* Line 324.
Parse ==
    /\ parsed_out.at = "none"
    /\ parsed_out' = [value |-> parse_response(response), at |-> "returned"]
    /\ UNCHANGED <<pipeline, writerVars, mentioned_characters, vcall, vobj, vrec, tpc,
                   last_read, response>>

NextParse ==
    \/ \E t \in ResponseTokens : Respond(t)
    \/ Parse

SpecParse == Init /\ [][NextParse]_vars

\* ------------------------------------------------------------ store reading
\* Where a completely written record fragment starts in the store.
RecordStarts(s) == {i \in 1 .. Len(s) : ObjEnd(s, i) # 0}
\* The index values of the completely written record fragments.
StoredIndices(s) == {ObjAt(s, i).index : i \in RecordStarts(s)}
NoDuplicateIndex(s) ==
    \A i, j \in RecordStarts(s) : i # j => ObjAt(s, i).index # ObjAt(s, j).index

\* The completely written record fragments, as text.
RecordsOf(s) == {SubSeq(s, i, ObjEnd(s, i)) : i \in RecordStarts(s)}
IsPrefix(a, b) == Len(a) <= Len(b) /\ SubSeq(b, 1, Len(a)) = a
\* The positions of the units of batch i.
UnitsOf(i) == {batches[i].sentences[n] : n \in 1 .. Len(batches[i].sentences)}

\* ------------------------------------------------------------------ claims
\* C1: every index value occurs in at most one record fragment of the persisted
\* store, after any number of runs and batches.
C1_IndexUnique == NoDuplicateIndex(store)

\* main has returned from a run that started on the store an earlier run left when
\* its main returned, no process having been killed.
SecondRunDone == pc = "done" /\ prevDone /\ ~killed

\* C2 as stated: after the second run the record set of the store is identical to
\* the record set after the first run.
C2_SameRecordSet ==
    SecondRunDone => RecordsOf(store) = RecordsOf(prevStore)

\* C2 as amended: the second run keeps every fragment of the first run as it was
\* written, duplicates no index, and leaves the store unchanged when the first run
\* had persisted every position of the document.
C2_ResumeExtends ==
    SecondRunDone =>
        /\ IsPrefix(prevStore, store)
        /\ NoDuplicateIndex(store)
        /\ (Positions \subseteq StoredIndices(prevStore) => store = prevStore)

\* A second run that was handed a record whose index the first run had persisted,
\* and that appended records of its own.
C2_Witness ==
    /\ SecondRunDone
    /\ prevStore # <<>>
    /\ Len(store) > Len(prevStore)
    /\ \E i \in yielded : \E n \in 1 .. Len(result[i]) :
          result[i][n].index \in StoredIndices(prevStore)

\* C3: when main has returned, every batch whose extraction produced validated
\* records has had them handed to the Writer.
C3_InFlightPersisted ==
    pc = "done" => \A i \in Futures : result[i] # <<>> => i \in yielded

\* C4: when main has returned, no position of a batch whose every attempt failed is
\* in the CompletionSet or in the store.
C4_AbandonedUncompleted ==
    pc = "done" =>
        \A i \in abandoned :
            UnitsOf(i) \cap (processed_indices \cup StoredIndices(store)) = {}

\* C5: in a run started after a process was killed, the CompletionSet holds every
\* index whose fragment is completely written in the store.
C5_CompleteFragmentsRecovered ==
    (killed /\ pc \notin {"load", "aborted"}) =>
        StoredIndices(store) \subseteq processed_indices

\* C6: for every store content load_existing_output_safe returns a set of
\* non-negative indices and no exception leaves it.
C6_TrackerNeverFails ==
    loaded.at = "returned" =>
        /\ ~loaded.raised
        /\ \A i \in loaded.idx : i >= 0

\* The call has returned on a store on which reading a record raised an exception.
C6_Witness == loaded.at = "returned" /\ Ladder(store).err

\* C7: the CompletionSet read from a truncated or overwritten store is a subset of
\* the CompletionSet read from the store as the Writer left it.
C7_LadderMonotone ==
    loaded.at = "returned" =>
        loaded.idx \subseteq load_existing_output_safe(orig).idx

\* A damaged store from which some but not all indices were read.
C7_Witness ==
    /\ loaded.at = "returned"
    /\ store # orig
    /\ loaded.idx # {}
    /\ loaded.idx # load_existing_output_safe(orig).idx

\* C8: the record made of the raw record at offset i has index base_index + i, the
\* emitted records keep the order of the raw ones, and when all raw records survive
\* the indices are base_index, base_index + 1, ... in that order.
C8_AnchorIndex ==
    call.at = "returned" =>
        /\ \A n \in 1 .. Len(returned) :
              returned[n].index = call.base_index + returned[n].id
        /\ \A m, n \in 1 .. Len(returned) : m < n => returned[m].id < returned[n].id
        /\ Len(returned) = Len(call.parsed) =>
              \A n \in 1 .. Len(returned) : returned[n].index = call.base_index + n - 1

\* A call with more raw records than units, one of them dropped before a kept one.
C8_Witness ==
    /\ call.at = "returned"
    /\ Len(call.parsed) > Len(call.original_sentences)
    /\ \E n \in 1 .. Len(returned) : returned[n].id > n - 1

\* C9: every batch holds the units at positions anchor, anchor + 1, ...
C9_BatchesContiguous ==
    \A i \in DOMAIN batches :
        \A n \in 1 .. Len(batches[i].sentences) :
            batches[i].sentences[n] = batches[i].start + n - 1

\* C10: at most one caller is inside the `with write_lock` block, it is the holder
\* of the lock, and no index is appended twice.
C10_WriterAtomic ==
    /\ Cardinality({w \in Writers : InScope(w)}) <= 1
    /\ \A w \in Writers : InScope(w) => write_lock = w
    /\ NoDuplicateIndex(store)

\* Two callers whose batches share an index have both returned.
C10_Witness ==
    /\ \A w \in Writers : wpc[w] = "end"
    /\ \E v, w \in Writers :
          /\ v # w
          /\ \E m \in 1 .. Len(wbatch[v]) : \E n \in 1 .. Len(wbatch[w]) :
                wbatch[v][m].index = wbatch[w][n].index
    /\ store # <<>>

\* C15: in every state each batch has made at most MAX_RETRIES attempts; a batch
\* still in its retry loop has made fewer and has no records; an abandoned batch has
\* made exactly MAX_RETRIES attempts, is finished and has no records.
C15_AttemptsBounded ==
    \A i \in Futures :
        /\ attempt[i] <= MAX_RETRIES
        /\ fut[i] = "running" => (attempt[i] < MAX_RETRIES /\ result[i] = <<>>)
        /\ fut[i] \in {"pending", "cancelled"} => attempt[i] = 0
        /\ i \in abandoned =>
              (attempt[i] = MAX_RETRIES /\ fut[i] = "finished" /\ result[i] = <<>>)

\* C15: within a run a step makes at most one attempt for a batch, makes none for a
\* batch that is not in its retry loop (its attempts stopped at the first response
\* that parsed, or it was abandoned), and an abandoned batch stays abandoned.
C15_AttemptsStop ==
    (restarts' = restarts /\ Futures # {}) =>
        \A i \in Futures :
            /\ attempt'[i] \in {attempt[i], attempt[i] + 1}
            /\ fut[i] # "running" => attempt'[i] = attempt[i]
            /\ fut[i] = "finished" => (fut'[i] = "finished" /\ result'[i] = result[i])
            /\ i \in abandoned => i \in abandoned'

\* C15: bounded retries, as a property of every behaviour.
C15_BoundedRetries == [](C15_AttemptsBounded) /\ [][C15_AttemptsStop]_vars

\* A run in which one batch was abandoned and another one succeeded at its last attempt.
C15_Witness ==
    /\ abandoned # {}
    /\ \E j \in Futures : result[j] # <<>> /\ attempt[j] = MAX_RETRIES

C19_BatcherPartition ==
    (pc = "drain" /\ yielded = {}) =>
        /\ \A i, j \in DOMAIN batches : i # j => UnitsOf(i) \cap UnitsOf(j) = {}
        /\ UNION {UnitsOf(i) : i \in DOMAIN batches} = Positions \ processed_indices
        /\ \A i \in DOMAIN batches :
              LET u == batches[i].sentences
              IN /\ \A m, n \in 1 .. Len(u) : m < n => u[m] < u[n]
                 /\ \A j \in DOMAIN batches : i < j =>
                       \A m \in 1 .. Len(u) :
                           \A n \in 1 .. Len(batches[j].sentences) :
                               u[m] < batches[j].sentences[n]
                 /\ Len(u) >= 1 /\ Len(u) <= BATCH_SIZE
                 /\ i < Len(batches) => Len(u) = BATCH_SIZE
                 /\ batches[i].start = u[1]

\* Batches built around completed positions: the first position is completed and a
\* later one is not.
C19_Witness ==
    /\ pc = "drain" /\ yielded = {}
    /\ 0 \in processed_indices
    /\ batches # <<>>
    /\ batches[1].start > 0

\* C20: within a run, once the stop flag is set it stays set, and a batch that has not
\* started (queued, cancelled, or returned at line 296 without an attempt) makes no
\* attempt, gets no records and leaves the store and the CompletionSet as they are.
C20_Step ==
    (stop_processing /\ restarts' = restarts) =>
        /\ stop_processing'
        /\ \A i \in Futures :
              (fut[i] \in {"pending", "cancelled"}
                   \/ (fut[i] = "finished" /\ attempt[i] = 0)) =>
                  /\ fut'[i] # "running"
                  /\ attempt'[i] = 0
                  /\ result'[i] = <<>>
                  /\ (i \notin yielded /\ i \in yielded') =>
                        (store' = store /\ processed_indices' = processed_indices)

\* C20: no new work after stop, as a property of every step.
C20_NoNewWorkAfterStop == [][C20_Step]_vars

\* After the flag was set one batch returned without an attempt and was handed to the
\* loop body, another was cancelled.
C20_Witness ==
    /\ stop_processing
    /\ pc = "done"
    /\ \E i \in yielded : fut[i] = "finished" /\ attempt[i] = 0
    /\ \E j \in Futures : fut[j] = "cancelled"

\* C11: no value of the coref of an emitted record is a pronoun, and none is
\* "Narrator".
C11_CorefSound ==
    vrec.emitted =>
        \A k \in DOMAIN vrec.coref :
            /\ lower(vrec.coref[k]) \notin PRONOUNS
            /\ vrec.coref[k] # Narrator

\* C12: the speaker of an emitted record is a non-empty string that is no pronoun,
\* whatever the raw speaker and the names in mentioned_characters.
C12_SpeakerSound ==
    vrec.emitted =>
        /\ vrec.speaker # <<>>
        /\ lower(vrec.speaker) \notin PRONOUNS

\* A first-person text without accepted character, resolved to a pronoun that was in
\* mentioned_characters: the speaker has become "Narrator".
C12_Witness ==
    /\ vrec.emitted
    /\ vcall.pov_char_fallback = Str(<<"h", "e">>)
    /\ has_first_person(vrec.text)
    /\ vrec.characters = <<>>
    /\ vrec.speaker = Narrator

\* C13: every element of characters of an emitted record is an element of its
\* entities.
C13_CharactersInEntities ==
    vrec.emitted => Range(vrec.characters) \subseteq Range(vrec.entities)

\* An accepted character whose lower-case form is in the exclusion set.
C13_Witness ==
    /\ vrec.emitted
    /\ \E c \in Range(vrec.characters) : lower(c) \in EXCLUDED

\* The candidates of the raw record as strs without surrounding whitespace, null
\* candidates left out.
CandidateStrs(obj) ==
    LET given == SelectSeq(Candidates(obj.characters), LAMBDA c : c.t # "none")
    IN [i \in DOMAIN given |-> strip(given[i].s)]

\* C17, the record: characters are the candidates (without surrounding whitespace)
\* that are longer than one character, start with an upper-case letter, are no
\* pronoun in any case and occur in the record's text, in their order; and the
\* names accepted in the call so far are in mentioned_characters and nothing else
\* was added.
C17_Filtered ==
    /\ vrec.emitted =>
          vrec.characters =
              SelectSeq(CandidateStrs(vobj),
                        LAMBDA c : /\ Len(c) > 1
                                   /\ isupper(c[1])
                                   /\ lower(c) \notin PRONOUNS
                                   /\ Contains(c, vrec.text))
    /\ vcall.at # "none" =>
          mentioned_characters = vcall.before \cup vcall.accepted

\* C17, the context: a turn of the loop adds the characters of the record it
\* emitted, and only them, to mentioned_characters; the return adds nothing.
C17_ContextStep ==
    /\ vcall'.at = "appended" =>
          mentioned_characters' = mentioned_characters \cup Range(vrec'.characters)
    /\ vcall'.at # "appended" => mentioned_characters' = mentioned_characters

\* C17: character filtering and context update, as a property of every behaviour.
C17_CharacterFiltering == [](C17_Filtered) /\ [][C17_ContextStep]_vars

\* The two-sentence scenario: from an empty context, after "He said hello." without
\* characters and "Mary laughed." with the candidate Mary, the context is {"Mary"}.
C17_Witness ==
    /\ vcall.at = "appended"
    /\ vcall.idx = 2
    /\ vcall.before = {}
    /\ vrec.text = DocSentences[2]
    /\ vrec.characters = <<<<"M", "a", "r", "y">>>>
    /\ mentioned_characters = {<<"M", "a", "r", "y">>}

\* C14: a step never removes a name from mentioned_characters, a reader never sees
\* fewer names than the reader before it, and what a reader saw is in the set.
C14_Step ==
    /\ mentioned_characters \subseteq mentioned_characters'
    /\ last_read \subseteq last_read'
    /\ last_read' \subseteq mentioned_characters'

\* C14: the CharacterContext is append-only, as a property of every step.
C14_AppendOnly == [][C14_Step]_vars

\* One thread is adding names while another has built a prompt from a smaller set
\* that held names of the store.
C14_Witness ==
    /\ last_read # {}
    /\ last_read # mentioned_characters
    /\ \E v, w \in Workers : v # w /\ tpc[v] = "validating" /\ tpc[w] = "queried"

\* The spans of the response from a "[" to a later "]" that are JSON after the quotes
\* are replaced and the commas before closing brackets removed.
RecoverableArrays(r) ==
    {Normalized(SubSeq(r, i, j)) :
        <<i, j>> \in {p \in (DOMAIN r) \X (DOMAIN r) :
                         /\ p[1] < p[2]
                         /\ r[p[1]] = "[" /\ r[p[2]] = "]"
                         /\ JsonOK(AsJson(Normalized(SubSeq(r, p[1], p[2]))))}}

\* C18: parse_response returns the parsed value of a response that is JSON as a
\* whole; otherwise, when the response holds an array-shaped span that is JSON after
\* normalisation, it returns the array of such a span; otherwise the empty list.
C18_FallbackParsing ==
    parsed_out.at = "returned" =>
        IF response # <<>> /\ JsonOK(AsJson(response))
        THEN parsed_out.value = Loaded(response)
        ELSE IF RecoverableArrays(response) # {}
             THEN parsed_out.value \in {Loaded(a) : a \in RecoverableArrays(response)}
        ELSE parsed_out.value = <<>>

\* C21: a batch whose every attempt failed has made MAX_RETRIES attempts, is finished
\* and has returned nothing.
C21_AbandonedEmpty ==
    \A i \in abandoned :
        i \in Futures /\ fut[i] = "finished" /\ attempt[i] = MAX_RETRIES /\ result[i] = <<>>

\* C21: within a run, a step in which a batch makes an attempt that yields no record
\* leaves the store, the CompletionSet, the CharacterContext and the place of main as
\* they are, and so does the step in which main takes up an abandoned batch, after
\* which main goes on with its loop.
C21_Step ==
    restarts' = restarts =>
        /\ \A i \in (DOMAIN attempt) \cap (DOMAIN attempt') :
              (attempt'[i] = attempt[i] + 1 /\ result'[i] = <<>>) =>
                  /\ store' = store
                  /\ processed_indices' = processed_indices
                  /\ mentioned_characters' = mentioned_characters
                  /\ pc' = pc
        /\ \A i \in abandoned :
              (i \in yielded' /\ i \notin yielded) =>
                  /\ store' = store
                  /\ processed_indices' = processed_indices
                  /\ mentioned_characters' = mentioned_characters
                  /\ pc' = "check"

\* C21: extraction leaves the shared state unchanged, as a property of every behaviour.
C21_ExtractionFrame == [](C21_AbandonedEmpty) /\ [][C21_Step]_vars

\* main has returned from a run in which one batch was abandoned and taken up by the
\* loop, and another batch gave records that were written and names that were added.
C21_Witness ==
    /\ pc = "done"
    /\ mentioned_characters # {}
    /\ \E i, j \in yielded :
          /\ i \in abandoned
          /\ result[j] # <<>>
          /\ \A n \in DOMAIN result[j] : result[j][n].index \in processed_indices

\* C22: the Batcher gives no batch for an empty list of units, and a run that has
\* submitted nothing has built no batch and made no attempt.
C22_NoBatches ==
    /\ BuildBatches(<<>>) = <<>>
    /\ (pc = "done" /\ fut = <<>>) => (batches = <<>> /\ attempt = <<>> /\ abandoned = {})

\* C22: when every position is in the CompletionSet and the input is read, the step
\* after the Resume Tracker ends the run: nothing is built or submitted and the store
\* and the CompletionSet stay as they are.
C22_Step ==
    (pc = "batch" /\ pc' \notin {"batch", "exit1"} /\ Positions \subseteq processed_indices) =>
        /\ pc' = "done"
        /\ batches' = <<>> /\ fut' = <<>> /\ attempt' = <<>>
        /\ store' = store
        /\ processed_indices' = processed_indices

\* C22: nothing to do, as a property of every behaviour.
C22_NothingToDo == [](C22_NoBatches) /\ [][C22_Step]_vars

\* A second run found every position completed and returned without submitting a
\* batch, on the store the first run left.
C22_Witness ==
    /\ pc = "done"
    /\ restarts = 1
    /\ fut = <<>>
    /\ Positions \subseteq processed_indices
    /\ store = prevStore
    /\ store # <<>>

\* C23: when main has returned, every submitted batch is finished or cancelled and
\* none is running; a cancelled batch never started, and a finished one gave records,
\* was abandoned after MAX_RETRIES attempts, gave nothing that survived validation or
\* was skipped at its start because the stop flag was set.
C23_Drained ==
    pc = "done" =>
        /\ Running = {}
        /\ \A i \in Futures :
              \/ fut[i] = "cancelled" /\ attempt[i] = 0 /\ result[i] = <<>>
              \/ fut[i] = "finished" /\ result[i] # <<>>
              \/ fut[i] = "finished" /\ i \in abandoned
              \/ fut[i] = "finished" /\ attempt[i] > 0 /\ result[i] = <<>>
              \/ fut[i] = "finished" /\ attempt[i] = 0 /\ stop_processing

\* C23: once main has returned, no step of that process changes the CharacterContext,
\* a future, an attempt count or a result.
C23_Step ==
    (pc = "done" /\ restarts' = restarts) =>
        /\ mentioned_characters' = mentioned_characters
        /\ fut' = fut /\ attempt' = attempt /\ result' = result

\* C23: DONE only after drain, as a property of every behaviour.
C23_DoneAfterDrain == [](C23_Drained) /\ [][C23_Step]_vars

\* main has returned after the stop flag was set: it took up one batch, and another,
\* still running when main left its loop, finished while the pool shut down.
C23_Witness ==
    /\ pc = "done"
    /\ stop_processing
    /\ \E i, j \in Futures :
          /\ i \in yielded
          /\ fut[j] = "finished" /\ j \notin yielded /\ result[j] # <<>>

\* C24: every run of a process that is not killed and finds its input reaches DONE:
\* from the start of main, main eventually returns.
C24_Termination == (pc = "load") ~> (pc = "done")

\* main has returned from a run in which a batch failed all its attempts, the stop
\* flag was set and a batch was cancelled.
C24_Witness ==
    /\ pc = "done"
    /\ stop_processing
    /\ abandoned # {}
    /\ \E i \in Futures : fut[i] = "cancelled"

\* The coref of the record is the filtered raw coref with i, my and me, where they are
\* words of the text and missing, mapped to pov.
C25_Backfilled(pov) ==
    LET raw == fixed_coref(vobj.coref)
        words == split(lower(vrec.text))
        missing == {k \in {<<"i">>, <<"m", "y">>, <<"m", "e">>} :
                       k \in words /\ k \notin DOMAIN raw}
    IN /\ DOMAIN vrec.coref = DOMAIN raw \cup missing
       /\ \A k \in DOMAIN raw : vrec.coref[k] = raw[k]
       /\ \A k \in missing : vrec.coref[k] = pov

\* C25: a record whose text has a first-person word and whose speaker is missing,
\* "Narrator" or a pronoun gets as speaker its first accepted character, else the first
\* name in sorted order of mentioned_characters as it is when the record is validated,
\* with i, my and me added to coref where missing; with no name at all the speaker and
\* the coref stay.
C25_PovResolution ==
    (vcall.at = "appended" /\ vrec.emitted /\ NeedsPov(SpeakerOf(vobj.speaker), vrec.text)) =>
        IF vrec.characters # <<>>
        THEN vrec.speaker = vrec.characters[1] /\ C25_Backfilled(vrec.characters[1])
        ELSE IF mentioned_characters # {}
             THEN /\ vrec.speaker = FirstSorted(mentioned_characters)
                  /\ C25_Backfilled(FirstSorted(mentioned_characters))
        ELSE vrec.speaker = Narrator /\ vrec.coref = fixed_coref(vobj.coref)

\* The key a raw pair is kept under, and its referent as a str without brackets.
C26_Key(p) == lower(strip(p.pronoun))
C26_Referent(p) == strip(StripBrackets(ReferentStr(p.referent).s))

\* The rule: the pair has a referent and a key, the referent is no pronoun, differs
\* from the key whatever the case, is longer than one character and starts in upper
\* case.
C26_Passes(p) ==
    /\ ~ReferentStr(p.referent).skip
    /\ C26_Key(p) # <<>>
    /\ lower(C26_Referent(p)) \notin PRONOUNS
    /\ lower(C26_Referent(p)) # C26_Key(p)
    /\ Len(C26_Referent(p)) > 1
    /\ isupper(C26_Referent(p)[1])

\* C26: the coref of an emitted record holds every raw pair that passes the rule, under
\* its lower-case key and with the brackets stripped (the last one when two pairs have
\* the same key), whatever happens to the other pairs; and it holds no other pair but
\* the entries for i, my and me that the point-of-view resolution adds.
C26_CorefFilterRule ==
    (vcall.at = "appended" /\ vrec.emitted /\ vobj.coref.t = "dict") =>
        LET pairs == vobj.coref.items
            kept == {n \in DOMAIN pairs : C26_Passes(pairs[n])}
        IN /\ \A n \in kept :
                 (\A m \in kept : m > n => C26_Key(pairs[m]) # C26_Key(pairs[n])) =>
                     /\ C26_Key(pairs[n]) \in DOMAIN vrec.coref
                     /\ vrec.coref[C26_Key(pairs[n])] = C26_Referent(pairs[n])
           /\ \A k \in DOMAIN vrec.coref :
                 \/ \E n \in kept : C26_Key(pairs[n]) = k
                 \/ /\ k \in {<<"i">>, <<"m", "y">>, <<"m", "e">>}
                    /\ NeedsPov(SpeakerOf(vobj.speaker), vrec.text)

\* A record made of a coref of two pairs: the pair I -> he is dropped, its sibling
\* he -> [Mark] is kept as he -> Mark, and nothing else is in the coref.
C26_Witness ==
    /\ vcall.at = "appended" /\ vrec.emitted
    /\ vobj.coref.t = "dict"
    /\ Len(vobj.coref.items) = 2
    /\ vobj.coref.items[1].referent = Str(<<"[", "M", "a", "r", "k", "]">>)
    /\ vobj.coref.items[2].referent = Str(<<"h", "e">>)
    /\ DOMAIN vrec.coref = {<<"h", "e">>}
    /\ vrec.coref[<<"h", "e">>] = <<"M", "a", "r", "k">>

\* C27: the speaker of an emitted record is "Narrator" or a name that is in
\* mentioned_characters when the record is appended.
C27_SpeakerKnown ==
    (vcall.at = "appended" /\ vrec.emitted) =>
        (vrec.speaker = Narrator \/ vrec.speaker \in mentioned_characters)

\* C28: every index of the CompletionSet is the index of a record fragment that is
\* complete in the store, and no fragment of the store has a negative index.
C28_InStore ==
    /\ processed_indices \subseteq StoredIndices(store)
    /\ \A p \in StoredIndices(store) : p >= 0

\* C28: within a run the CompletionSet only grows, and the store only grows by
\* appending.
C28_Step ==
    restarts' = restarts =>
        /\ processed_indices \subseteq processed_indices'
        /\ IsPrefix(store, store')

C29_IndexMatchesSentence ==
    /\ \A p \in StoredIndices(store) : p \in Positions
    /\ \A i \in Futures : \A n \in DOMAIN result[i] :
          /\ result[i][n].index \in UnitsOf(i)
          /\ result[i][n].id < Len(batches[i].sentences)
          /\ batches[i].sentences[result[i][n].id + 1] = result[i][n].index

\* The batch made one attempt and returned one record per unit, the n-th made of the
\* n-th element of the reply.
C30_WellBehaved(i) ==
    /\ fut[i] = "finished"
    /\ attempt[i] = 1
    /\ Len(result[i]) = Len(batches[i].sentences)
    /\ \A n \in DOMAIN result[i] : result[i][n].id = n - 1

\* C30: when main has returned from a run in which the stop flag was not set and every
\* batch returned one record per unit, in order, every position of the document is in
\* the CompletionSet.
C30_CompleteRun ==
    (pc = "done" /\ ~stop_processing /\ \A i \in Futures : C30_WellBehaved(i)) =>
        Positions \subseteq processed_indices

\* ------------------------- the CharacterContext over the runs of the program
\* Line 440 with the names of the stored records followed: the call adds the strs of
\* "characters" of every record it reads (lines 374-376, 391-393, 410-412).
LoadWithNames ==
    /\ pc = "load"
    /\ processed_indices' = load_existing_output_safe(store).idx
    /\ pc' = IF load_existing_output_safe(store).raised THEN "aborted" ELSE "batch"
    /\ mentioned_characters' = mentioned_characters \cup loaded_characters(store)
    /\ UNCHANGED <<store, batches, fut, attempt, result, abandoned, yielded,
                   stop_processing, restarts, killed, prevStore, prevDone, auxRest>>

\* Lines 278 and 195: the record made of a raw record holds the names line 194
\* accepted in it, and every one of them is in mentioned_characters from then on.
WithCharacters(cleaned, chars) ==
    [n \in DOMAIN cleaned |->
        [index |-> cleaned[n].index, id |-> cleaned[n].id, brace |-> cleaned[n].brace,
         characters |-> chars[cleaned[n].id + 1]]]

\* An attempt whose response parses (lines 323-326), then lines 332-347, the accepted
\* names of every raw record followed; chars[j] are those of the j-th raw record.
AttemptParsesWithNames(i) ==
    /\ i \in Futures
    /\ fut[i] = "running"
    /\ attempt[i] < MAX_RETRIES
    /\ \E kinds \in ParsedLists(Len(batches[i].sentences)) :
       \E chars \in [DOMAIN kinds -> SUBSET RunNames] :
          LET parsed == [j \in DOMAIN kinds |-> [kind |-> kinds[j], id |-> j - 1]]
              cleaned == clean_and_validate(parsed, batches[i].sentences,
                                            batches[i].start)
              kept == {cleaned[n].id + 1 : n \in DOMAIN cleaned}
          IN /\ \A j \in DOMAIN kinds \ kept : chars[j] = {}
             /\ result' = [result EXCEPT ![i] = WithCharacters(cleaned, chars)]
             /\ mentioned_characters' =
                    mentioned_characters \cup UNION {chars[j] : j \in kept}
    /\ attempt' = [attempt EXCEPT ![i] = attempt[i] + 1]
    /\ fut' = [fut EXCEPT ![i] = "finished"]
    /\ UNCHANGED <<store, pc, processed_indices, batches, abandoned, yielded,
                   stop_processing, restarts, killed, prevStore, prevDone, auxRest>>

NextResume ==
    \/ LoadWithNames
    \/ Batch
    \/ \E i \in Futures : StartBatch(i)
    \/ \E i \in Futures : AttemptFails(i)
    \/ \E i \in Futures : AttemptParsesWithNames(i)
    \/ \E i \in Futures : Handle(i)
    \/ CheckStop
    \/ LoopEnds
    \/ ExitPool
    \/ signal_handler
    \/ Restart

SpecResume == Init /\ [][NextResume]_vars

\* C31: when main has returned, every name of mentioned_characters is among the names
\* the Resume Tracker of the next run reads from the store, so that the set the next
\* process builds from nothing (line 19) holds what the set of this one held.
C31_ContextSurvives ==
    pc = "done" => mentioned_characters \subseteq loaded_characters(store)
====
